---- MODULE Spec2Model ----
(***************************************************************************)
(* A model of JTune's analysis pipeline (src/jtune.py): the stanza loop of *)
(* _at_exit, the record parser GCRecord._parse_record and the aggregation  *)
(* stages of _run_analysis, and the recommendation stages of               *)
(* _show_recommendations and _get_survivor_info.                           *)
(*                                                                         *)
(* Text lines are modelled by what the regular expressions of the source   *)
(* can see in them (see the line constructors below).  Python's None is    *)
(* the empty tuple and a set value v is <<v>>, so that the Python 2        *)
(* orderings of None against numbers are explicit.  Durations are whole    *)
(* milliseconds, uptimes and timestamps whole seconds, quotients exact     *)
(* fractions.                                                              *)
(***************************************************************************)
EXTENDS Integers, Sequences, FiniteSets, TLC

VARIABLES
    pc,          \* where the program is: "parse"/"parsed", "ingest", "analysis", "done", "crashed"
    gc_data,     \* _at_exit: the accumulated GCRecords
    in_stanza,   \* _at_exit: a stanza header has been seen
    date_time,   \* _at_exit: timestamp of the stanza being collected (None before the first)
    entry,       \* _at_exit: the lines of the stanza being collected
    gc_record,   \* the GCRecord built last (None before the first)
    line_num,    \* number of log lines consumed so far
    analysis,    \* outcome of _run_analysis (None before it ran)
    jmap_data,   \* main: the jmap snapshot (None when there is none)
    optimized_for_ygcs_rate,  \* main: the target young-GC rate per minute
    secs,        \* reduce_seconds: its argument
    retval,      \* reduce_seconds: the string returned (None before the call)
    median_values,  \* median: the caller's list
    median_result,  \* median: the value returned (None before the call)
    jstat_args,  \* run_jstat: no_jstat_output, fgc_stop_count, max_count, ygc_stop_count
    jstat_pc,    \* run_jstat: "idle", "reading", "returned" or "exited" (sys.exit)
    jstat_data,  \* run_jstat: the YGC and FGC columns read so far
    jstat_line_num,  \* run_jstat: line_num
    displayed_output,  \* run_jstat: the first row was dealt with
    total_fgcs,  \* run_jstat: full GCs since the first sample (None until computed)
    total_ygcs,  \* run_jstat: young GCs since the first sample (None until computed)
    subproc      \* the jstat subprocess: "none", "running", "finished" or "terminated"

\* The variables of the log pipeline and those of the helper functions.
pipeline_vars == <<pc, gc_data, in_stanza, date_time, entry, gc_record, line_num,
                   analysis, jmap_data, optimized_for_ygcs_rate>>
jstat_vars == <<jstat_args, jstat_pc, jstat_data, jstat_line_num, displayed_output,
                total_fgcs, total_ygcs, subproc>>
helper_vars == <<secs, retval, median_values, median_result, jstat_vars>>

vars == <<pc, gc_data, in_stanza, date_time, entry, gc_record, line_num, analysis,
          jmap_data, optimized_for_ygcs_rate, secs, retval, median_values,
          median_result, jstat_args, jstat_pc, jstat_data, jstat_line_num,
          displayed_output, total_fgcs, total_ygcs, subproc>>

----------------------------------------------------------------------------
(* Python values *)

None == <<>>
Some(v) == <<v>>
Val(x) == x[1]

\* Python truth value of an optional number: None and 0 are false.
Truthy(x) == x # None /\ Val(x) # 0

\* Python truth value of an optional string (the strings used are never empty).
TruthyStr(x) == x # None

\* Python 2: None orders below every number, so "None < n" is true.
PyLtNum(x, n) == x = None \/ Val(x) < n

\* Python 2 "a > b" on optional numbers: nothing is below None.
PyGt(a, b) ==
    IF a = None THEN FALSE
    ELSE IF b = None THEN TRUE
    ELSE Val(a) > Val(b)

----------------------------------------------------------------------------
(* Exact quotients: <<numerator, denominator>> in lowest terms, denominator > 0 *)

Abs(x) == IF x < 0 THEN -x ELSE x

RECURSIVE Gcd(_, _)
Gcd(a, b) == IF b = 0 THEN a ELSE Gcd(b, a % b)

\* n / d for d # 0
Frac(n, d) ==
    LET g == Gcd(Abs(n), Abs(d))
        s == IF d < 0 THEN -1 ELSE 1
    IN <<(s * n) \div g, (s * d) \div g>>

FracOfInt(n) == <<n, 1>>
FracAdd(x, y) == Frac(x[1] * y[2] + y[1] * x[2], x[2] * y[2])
FracSub(x, y) == Frac(x[1] * y[2] - y[1] * x[2], x[2] * y[2])
FracMul(x, y) == Frac(x[1] * y[1], x[2] * y[2])
FracLe(x, y) == x[1] * y[2] <= y[1] * x[2]
FracLt(x, y) == x[1] * y[2] < y[1] * x[2]

RECURSIVE FracSum(_)
FracSum(values) ==
    IF values = <<>> THEN FracOfInt(0)
    ELSE FracAdd(values[1], FracSum(Tail(values)))

\* min(values), max(values) of a non-empty list
FracMin(values) ==
    CHOOSE x \in {values[i] : i \in 1..Len(values)} :
        \A i \in 1..Len(values) : FracLe(x, values[i])
FracMax(values) ==
    CHOOSE x \in {values[i] : i \in 1..Len(values)} :
        \A i \in 1..Len(values) : FracLe(values[i], x)

\* mean(values) for a non-empty list: Decimal(str(sum(values))) / len(values)
mean(values) == FracMul(FracSum(values), Frac(1, Len(values)))

\* x / y for y # 0, and math.floor
FracDiv(x, y) == Frac(x[1] * y[2], x[2] * y[1])
Floor(x) == x[1] \div x[2]

\* [FracOfInt(v) for v in values]
FracsOf(values) == [i \in 1..Len(values) |-> FracOfInt(values[i])]

\* _min(values), _max(values): 0 for an empty list
_min(values) == IF values = <<>> THEN FracOfInt(0) ELSE FracMin(values)
_max(values) == IF values = <<>> THEN FracOfInt(0) ELSE FracMax(values)

\* sorted(values)[k - 1] for 1 <= k <= len(values)
Sorted(values, k) ==
    CHOOSE v \in {values[i] : i \in 1..Len(values)} :
        /\ Cardinality({i \in 1..Len(values) : FracLt(values[i], v)}) < k
        /\ k <= Cardinality({i \in 1..Len(values) : FracLe(values[i], v)})

\* [element for element in values if element <= watermark]
RECURSIVE AtMost(_, _)
AtMost(values, watermark) ==
    IF values = <<>> THEN <<>>
    ELSE (IF FracLe(values[1], watermark) THEN <<values[1]>> ELSE <<>>)
         \o AtMost(Tail(values), watermark)

\* percentile(values, pct).  watermark_index = int(round(pct / 100 * len + .5)),
\* which Python 2 rounds half away from zero; indexing an empty list raises.
percentile(values, pct) ==
    LET watermark_index == (pct * Len(values)) \div 100 + 1 IN
    IF watermark_index > Len(values)
    THEN [exc |-> "IndexError", val |-> <<>>]
    ELSE [exc |-> "none", val |-> AtMost(values, Sorted(values, watermark_index))]

\* The argument of math.sqrt in stdev(values): mean(variance, len - 1), where
\* mean takes len(values) for a length of 0 and gives 0 for a negative one.
variance(values) ==
    IF values = <<>> THEN FracOfInt(0)
    ELSE LET values_mean == mean(values)
             squares == [i \in 1..Len(values) |->
                            FracMul(FracSub(values[i], values_mean),
                                    FracSub(values[i], values_mean))]
             _length == IF Len(values) = 1 THEN 1 ELSE Len(values) - 1
         IN FracMul(FracSum(squares), Frac(1, _length))

\* "stdev(values) > goal" for goal >= 0
StdevGt(values, goal) == FracLt(FracOfInt(goal * goal), variance(values))

----------------------------------------------------------------------------
(* main: the target young-GC rate chosen with --optimize *)

ygc_upper_rate_per_min == 180

DefaultOptimize == 9

\* "optimized_for_ygcs_rate = ((-Decimal(ygc_upper_rate_per_min - 1) / 11)
\*      * Decimal(str(cmd_args.optimize)) + ygc_upper_rate_per_min)"
OptimizedRate(optimize) ==
    FracAdd(FracMul(Frac(-(ygc_upper_rate_per_min - 1), 11), optimize),
            FracOfInt(ygc_upper_rate_per_min))

DefaultRate == OptimizedRate(FracOfInt(DefaultOptimize))

----------------------------------------------------------------------------
(* The helper functions reduce_seconds and median, each called once on an  *)
(* argument drawn from a bounded set.                                      *)

\* run_jstat was not called: the state its first statements set up, and no
\* subprocess.
JstatIdle ==
    /\ jstat_args = [no_jstat_output |-> FALSE, fgc_stop_count |-> 0,
                     max_count |-> 0, ygc_stop_count |-> 0]
    /\ jstat_pc = "idle"
    /\ jstat_data = [YGC |-> <<>>, FGC |-> <<>>]
    /\ jstat_line_num = 0
    /\ displayed_output = FALSE
    /\ total_fgcs = None
    /\ total_ygcs = None
    /\ subproc = "none"

\* No helper function is being called.
HelpersIdle ==
    /\ secs = 0
    /\ retval = None
    /\ median_values = <<>>
    /\ median_result = None
    /\ JstatIdle

\* The log pipeline is not running.
PipelineIdle ==
    /\ pc = "helper"
    /\ gc_data = <<>>
    /\ in_stanza = FALSE
    /\ date_time = None
    /\ entry = <<>>
    /\ gc_record = None
    /\ line_num = 0
    /\ analysis = None
    /\ jmap_data = None
    /\ optimized_for_ygcs_rate = DefaultRate

\* reduce_seconds(secs) for a whole number of seconds: the divmod chain, then
\* the units appended to retval with the early returns of the nested ifs.
reduce_seconds(n) ==
    LET s == n % 60
        m == (n \div 60) % 60
        hours == ((n \div 60) \div 60) % 24
        days == ((n \div 60) \div 60) \div 24
        with_days == IF days # 0 THEN ToString(days) \o "d" ELSE ""
        with_hours == IF hours # 0 THEN with_days \o ToString(hours) \o "h" ELSE with_days
        with_mins == IF m # 0 THEN with_hours \o ToString(m) \o "m" ELSE with_hours
    IN IF hours # 0 /\ days > 0 THEN with_hours
       ELSE IF m # 0 /\ (hours # 0 \/ days # 0) THEN with_mins
       ELSE IF s # 0 THEN with_mins \o ToString(s) \o "s"
       ELSE with_mins

MaxDays == 1

\* Whole seconds up to MaxDays days and some hours, among them 1, 2064,
\* 64738 and 129476.
ReduceInputs ==
    {d * 86400 + h * 3600 + m * 60 + s :
        d \in 0..MaxDays, h \in {0, 1, 11, 17}, m \in {0, 5, 34, 57, 58},
        s \in {0, 1, 24, 56, 58}}

InitReduce ==
    /\ PipelineIdle
    /\ secs \in ReduceInputs
    /\ retval = None
    /\ median_values = <<>>
    /\ median_result = None
    /\ JstatIdle

\* retval = reduce_seconds(secs)
CallReduceSeconds ==
    /\ pc = "helper"
    /\ retval = None
    /\ retval' = Some(reduce_seconds(secs))
    /\ UNCHANGED <<secs, median_values, median_result>>
    /\ UNCHANGED jstat_vars
    /\ UNCHANGED pipeline_vars

NextReduce == CallReduceSeconds

SpecReduce == InitReduce /\ [][NextReduce]_vars

\* "sorts = sorted(values)": a new list, the k-th smallest value at position k
sortedAsGiven(list) == list
sorted(list) ==
    [k \in 1..Len(list) |->
        CHOOSE v \in {list[i] : i \in 1..Len(list)} :
            /\ Cardinality({i \in 1..Len(list) : list[i] < v}) < k
            /\ k <= Cardinality({i \in 1..Len(list) : list[i] <= v})]

\* median(values): 0 for an empty list, "(sorts[length / 2] + sorts[(length /
\* 2) - 1]) / 2.0" for an even length, "sorts[length / 2]" for an odd one
median(list) ==
    LET sorts == sorted(list)
        length == Len(sorts)
    IN IF list = <<>> THEN FracOfInt(0)
       ELSE IF length % 2 = 0
       THEN Frac(sorts[length \div 2 + 1] + sorts[length \div 2], 2)
       ELSE FracOfInt(sorts[length \div 2 + 1])

MaxValues == 4

\* Lists of up to MaxValues numbers, with repeats and in every order.
MedianInputs ==
    UNION {[1..n -> {1, 2, 4, 7}] : n \in 0..MaxValues}

InitMedian ==
    /\ PipelineIdle
    /\ secs = 0
    /\ retval = None
    /\ median_values \in MedianInputs
    /\ median_result = None
    /\ JstatIdle

\* median_result = median(values); sorted() copies, the caller's list stays.
CallMedian ==
    /\ pc = "helper"
    /\ median_result = None
    /\ median_result' = Some(median(median_values))
    /\ median_values' = median_values
    /\ UNCHANGED <<secs, retval>>
    /\ UNCHANGED jstat_vars
    /\ UNCHANGED pipeline_vars

NextMedian == CallMedian

SpecMedian == InitMedian /\ [][NextMedian]_vars

----------------------------------------------------------------------------
(* run_jstat: the counter-sampling loop over the lines of the jstat       *)
(* subprocess, a header line and then one sample a second.                *)

MaxSamples == 4

\* The counters of the first sample, and by how much a later sample may
\* exceed the one before it.
FirstCounts == [YGC |-> 7, FGC |-> 5]
YgcSteps == {0, 1}
FgcSteps == {0, 1, 2}

\* The arguments main passes: -s, -c and -y of the command line; with -n
\* main does not call run_jstat, so no_jstat_output arrives unset.
JstatArgs ==
    [no_jstat_output : {FALSE}, fgc_stop_count : {0, 1, 2},
     max_count : {0, 3}, ygc_stop_count : {0, 2}]

\* "subproc = sp.Popen(...)" in liverun, after the variables of run_jstat
\* were set up
InitJstat ==
    /\ PipelineIdle
    /\ secs = 0
    /\ retval = None
    /\ median_values = <<>>
    /\ median_result = None
    /\ jstat_args \in JstatArgs
    /\ jstat_pc = "reading"
    /\ jstat_data = [YGC |-> <<>>, FGC |-> <<>>]
    /\ jstat_line_num = 0
    /\ displayed_output = FALSE
    /\ total_fgcs = None
    /\ total_ygcs = None
    /\ subproc = "running"

StopReachedWithoutFloor(stop_count, total) ==
    total # None /\ stop_count <= Val(total)

\* "if 0 < fgc_stop_count <= total_fgcs:"; in Python 2 a number is never
\* at or below None
StopReached(stop_count, total) ==
    0 < stop_count /\ total # None /\ stop_count <= Val(total)

\* "finally: if subproc and subproc.poll() is None: subproc.terminate()"
Finally(proc) == IF proc = "running" THEN "terminated" ELSE proc

\* The two stop tests and "line_num += 1" at the end of an iteration, with
\* the totals the iteration has.
EndOfIteration(fgcs, ygcs) ==
    IF StopReached(jstat_args.fgc_stop_count, fgcs)
         \/ StopReached(jstat_args.ygc_stop_count, ygcs)
    THEN /\ jstat_pc' = "returned"
         /\ subproc' = Finally(subproc)
         /\ jstat_line_num' = jstat_line_num
    ELSE /\ jstat_line_num' = jstat_line_num + 1
         /\ UNCHANGED <<jstat_pc, subproc>>

\* The iteration on the header line: "if line_num == 0: jstat_data[field] =
\* list()"
ReadJstatHeader ==
    /\ jstat_pc = "reading" /\ subproc = "running"
    /\ jstat_line_num = 0
    /\ EndOfIteration(total_fgcs, total_ygcs)
    /\ UNCHANGED <<jstat_args, jstat_data, displayed_output, total_fgcs, total_ygcs>>

\* The samples jstat may print next: the counters never fall.
NextCounts ==
    IF jstat_data.FGC = <<>> THEN {FirstCounts}
    ELSE {[YGC |-> jstat_data.YGC[Len(jstat_data.YGC)] + y,
           FGC |-> jstat_data.FGC[Len(jstat_data.FGC)] + f] :
             y \in YgcSteps, f \in FgcSteps}

\* jstat was started with max_count and has printed that many samples.
JstatFinished ==
    jstat_args.max_count > 0 /\ Len(jstat_data.FGC) >= jstat_args.max_count

\* The iteration on a sample line of a JVM whose survivor spaces are equal:
\* the fields are appended, the totals are taken from line 2 on, the first
\* row is displayed or with -n skipped by "continue", then the stop tests.
ReadJstatSample ==
    /\ jstat_pc = "reading" /\ subproc = "running"
    /\ jstat_line_num > 0
    /\ Len(jstat_data.FGC) < MaxSamples
    /\ ~JstatFinished
    /\ \E sample \in NextCounts :
          LET data == [YGC |-> Append(jstat_data.YGC, sample.YGC),
                       FGC |-> Append(jstat_data.FGC, sample.FGC)]
              fgcs == IF jstat_line_num >= 2
                      THEN Some(sample.FGC - data.FGC[1]) ELSE total_fgcs
              ygcs == IF jstat_line_num >= 2
                      THEN Some(sample.YGC - data.YGC[1]) ELSE total_ygcs
          IN /\ jstat_data' = data
             /\ total_fgcs' = fgcs
             /\ total_ygcs' = ygcs
             /\ displayed_output' = TRUE
             /\ IF ~displayed_output /\ jstat_args.no_jstat_output
                THEN UNCHANGED <<jstat_pc, subproc, jstat_line_num>>
                ELSE EndOfIteration(fgcs, ygcs)
    /\ UNCHANGED jstat_args

\* The iteration on a sample line whose S0C and S1C differ: the fields are
\* appended, then logger.error and sys.exit(1), through the finally clause.
ReadJstatSampleNotCms ==
    /\ jstat_pc = "reading" /\ subproc = "running"
    /\ jstat_line_num > 0
    /\ Len(jstat_data.FGC) < MaxSamples
    /\ ~JstatFinished
    /\ \E sample \in NextCounts :
          jstat_data' = [YGC |-> Append(jstat_data.YGC, sample.YGC),
                         FGC |-> Append(jstat_data.FGC, sample.FGC)]
    /\ jstat_pc' = "exited"
    /\ subproc' = Finally(subproc)
    /\ UNCHANGED <<jstat_args, jstat_line_num, displayed_output, total_fgcs, total_ygcs>>

\* jstat printed max_count samples and ended: the for loop is over, the
\* finally clause finds the subprocess gone, jstat_data is returned.
JstatOutputEnds ==
    /\ jstat_pc = "reading" /\ subproc = "running"
    /\ JstatFinished
    /\ jstat_pc' = "returned"
    /\ subproc' = Finally("finished")
    /\ UNCHANGED <<jstat_args, jstat_data, jstat_line_num, displayed_output,
                   total_fgcs, total_ygcs>>

\* "except (IOError, KeyboardInterrupt): pass", then the finally clause and
\* "return jstat_data"
JstatInterrupted ==
    /\ jstat_pc = "reading" /\ subproc = "running"
    /\ jstat_pc' = "returned"
    /\ subproc' = Finally(subproc)
    /\ UNCHANGED <<jstat_args, jstat_data, jstat_line_num, displayed_output,
                   total_fgcs, total_ygcs>>

NextJstat ==
    /\ \/ ReadJstatHeader
       \/ ReadJstatSample
       \/ ReadJstatSampleNotCms
       \/ JstatOutputEnds
       \/ JstatInterrupted
    /\ UNCHANGED <<secs, retval, median_values, median_result>>
    /\ UNCHANGED pipeline_vars

SpecJstat == InitJstat /\ [][NextJstat]_vars

----------------------------------------------------------------------------
(* Properties of run_jstat, checked under SpecJstat.                      *)

NumSamples == Len(jstat_data.FGC)

\* At sample k of data, a positive stop count is reached by the collections
\* counted since the first sample.
ReachedIn(data, k) ==
    \/ /\ jstat_args.fgc_stop_count > 0
       /\ data.FGC[k] - data.FGC[1] >= jstat_args.fgc_stop_count
    \/ /\ jstat_args.ygc_stop_count > 0
       /\ data.YGC[k] - data.YGC[1] >= jstat_args.ygc_stop_count

\* A step that reads a sample and leaves the loop by a break.
StopsOnSample ==
    /\ jstat_pc = "reading" /\ jstat_pc' = "returned"
    /\ Len(jstat_data'.FGC) = NumSamples + 1

\* A step keeps every sample read so far.
SamplesKept ==
    /\ NumSamples <= Len(jstat_data'.FGC)
    /\ SubSeq(jstat_data'.FGC, 1, NumSamples) = jstat_data.FGC
    /\ SubSeq(jstat_data'.YGC, 1, NumSamples) = jstat_data.YGC

\* C27: run_jstat leaves the loop at the first sample at which the full
\* or young collections counted since the first sample reach a positive stop
\* count: while it reads no sample has reached one, it never stops on a
\* sample that has not, so a stop count of 0 never stops it; every sample
\* read stays in the data; once the function has returned or exited the
\* jstat subprocess no longer runs.
C27_StopsAtFirstSampleReachingCount ==
    /\ [](/\ jstat_pc = "reading" => \A k \in 1..NumSamples : ~ReachedIn(jstat_data, k)
          /\ \A k \in 1..(NumSamples - 1) : ~ReachedIn(jstat_data, k)
          /\ jstat_pc \in {"returned", "exited"} => subproc # "running")
    /\ [][/\ StopsOnSample => ReachedIn(jstat_data', NumSamples + 1)
          /\ SamplesKept]_vars

\* The loop left by a break at the third sample, the first to show two full
\* collections since the first sample, and jstat was terminated.
C27_Witness ==
    /\ jstat_pc = "returned" /\ subproc = "terminated"
    /\ jstat_args.fgc_stop_count = 2 /\ jstat_args.ygc_stop_count = 0
    /\ jstat_args.max_count = 0
    /\ NumSamples = 3
    /\ jstat_data.FGC[2] - jstat_data.FGC[1] = 1
    /\ jstat_data.FGC[3] - jstat_data.FGC[1] >= 2
    /\ total_fgcs = Some(jstat_data.FGC[3] - jstat_data.FGC[1])

----------------------------------------------------------------------------
(* Log lines, by what the regular expressions of the source match.         *)
(*   kind   "hdr": matches the stanza delimiter of _at_exit                *)
(*          "threshold", "age", "realloc": match the patterns of           *)
(*          _parse_record; "other": matches none of them; "eof": the       *)
(*          "END_OF_FILE" line process_gclog puts after the last line      *)
(*   marks  which of "CMS Initial Mark", "CMS Final Remark", "Full GC"     *)
(*          occur in the line                                              *)
(*   sweep  "no": no "CMS-concurrent-sweep: " in the line; "match": the    *)
(*          line matches the concurrent-sweep pattern; "sub": the text     *)
(*          occurs but the pattern does not match                          *)
(*   pause  the first ", <float> secs] " token of the line, in ms          *)

HdrLine(ts, uptime, tag, marks, sweep, sweep_secs, pause) ==
    [kind |-> "hdr", ts |-> ts, uptime |-> uptime, tag |-> tag, marks |-> marks,
     sweep |-> sweep, sweep_secs |-> sweep_secs, pause |-> pause]

ThresholdLine(dss, curr, max) ==
    [kind |-> "threshold", dss |-> dss, curr |-> curr, max |-> max,
     marks |-> {}, sweep |-> "no", pause |-> None]

AgeLine(age, bytes, total) ==
    [kind |-> "age", age |-> age, bytes |-> bytes, total |-> total,
     marks |-> {}, sweep |-> "no", pause |-> None]

\* ": ybK->yaK(ytK), ygt secs] tbK->taK(ttK), tgt secs]": its first pause token is ygt.
ReallocLine(yb, ya, yt, ygt, tb, ta, tt, tgt) ==
    [kind |-> "realloc", yb |-> yb, ya |-> ya, yt |-> yt, ygt |-> ygt,
     tb |-> tb, ta |-> ta, tt |-> tt, tgt |-> tgt,
     marks |-> {}, sweep |-> "no", pause |-> Some(ygt)]

OtherLine(marks, sweep, pause) ==
    [kind |-> "other", marks |-> marks, sweep |-> sweep, pause |-> pause]

\* gc_log_queue.append("END_OF_FILE")
EndOfFileLine == [kind |-> "eof", marks |-> {}, sweep |-> "no", pause |-> None]

----------------------------------------------------------------------------
(* GCRecord *)

WarmupFloor == 300

\* GCRecord.__init__ before _parse_record runs.  exc is "none" unless the
\* constructor raised; no record exists in the program when it did.
NewRecord(raw_gc_record) ==
    [raw_gc_record |-> raw_gc_record,
     is_cms_gc |-> FALSE, is_stw_gc |-> FALSE, cms_sweep_time |-> None,
     valid_record |-> FALSE, record_timestamp |-> None, jvm_running_time |-> None,
     gc_type |-> None, desired_survivor_size |-> None, curr_threshold |-> None,
     max_threshold |-> None, ages |-> <<>>,
     young_size_before_gc |-> None, young_size_after_gc |-> None,
     young_size_total |-> None, young_gc_time |-> 0,
     total_heap_before_gc |-> None, total_heap_after_gc |-> None,
     total_heap |-> None, total_gc_time |-> 0,
     og_used |-> None, stw_time |-> 0, exc |-> "none"]

\* any(marker in line for line in record_array)
AnyLineHas(record_array, marker) ==
    \E i \in 1..Len(record_array) : marker \in record_array[i].marks

\* re.search(r", ([\d\.]+) secs\] ", record_array[-1])
LastLinePause(record_array) == record_array[Len(record_array)].pause

\* One of the three stop-the-world blocks of _parse_record.
StwBlock(self, record_array, marker, gc_type) ==
    IF AnyLineHas(record_array, marker) /\ LastLinePause(record_array) # None
    THEN [self EXCEPT !.gc_type = Some(gc_type), !.is_stw_gc = TRUE,
                      !.valid_record = TRUE,
                      !.stw_time = @ + Val(LastLinePause(record_array))]
    ELSE self

\* The three blocks in source order: initial mark, final remark, Full GC.
ParseStw(self, record_array) ==
    StwBlock(StwBlock(StwBlock(self, record_array, "CMS Initial Mark", "CMS-STW"),
                      record_array, "CMS Final Remark", "CMS-STW"),
             record_array, "Full GC", "FULL")

\* "if not self.is_stw_gc:" guarding the line loop
SweepGuardAlways(self) == TRUE
SweepGuard(self) == ~self.is_stw_gc

\* "if self.jvm_running_time < 300:"
BelowFloorTypo(self) == PyLtNum(self.jvm_running_time, 30)
BelowFloor(self) == PyLtNum(self.jvm_running_time, WarmupFloor)

\* "for age in range(1, self.max_threshold + 1): self.ages.append((age, -1, -1))"
InitAges(max) == [age \in 1..max |-> <<age, -1, -1>>]

\* Position (1-based) that Python's list index idx denotes in a list of
\* length n, or 0 when the index is out of range (IndexError).
PyIndex(idx, n) ==
    IF idx >= 0 /\ idx < n THEN idx + 1
    ELSE IF idx < 0 /\ idx >= -n THEN n + idx + 1
    ELSE 0

\* The body of "for line in record_array:", from line i on.
RECURSIVE ParseLines(_, _, _)
ParseLines(self, record_array, i) ==
    IF i > Len(record_array) THEN self
    ELSE
    LET line == record_array[i] IN
    IF line.sweep # "no"
    THEN \* "CMS-concurrent-sweep: " in line: set the fields on a match, then break
         IF line.sweep = "match"
         THEN [self EXCEPT !.is_cms_gc = TRUE, !.valid_record = TRUE,
                           !.gc_type = Some("CMS"),
                           !.jvm_running_time = Some(line.uptime),
                           !.cms_sweep_time = Some(line.sweep_secs)]
         ELSE self
    ELSE
    LET s1 == IF ~(Truthy(self.jvm_running_time) \/ TruthyStr(self.gc_type))
                 /\ line.kind = "hdr" /\ line.tag # None
              THEN [self EXCEPT !.jvm_running_time = Some(line.uptime),
                                !.gc_type = line.tag]
              ELSE self
    IN
    IF ~(Truthy(s1.desired_survivor_size) \/ Truthy(s1.curr_threshold)
            \/ Truthy(s1.max_threshold))
       /\ line.kind = "threshold"
    THEN ParseLines([s1 EXCEPT !.valid_record = TRUE,
                               !.desired_survivor_size = Some(line.dss),
                               !.curr_threshold = Some(line.curr),
                               !.max_threshold = Some(line.max),
                               !.ages = @ \o InitAges(line.max)],
                    record_array, i + 1)
    ELSE IF BelowFloor(s1)
    THEN [s1 EXCEPT !.valid_record = FALSE]
    ELSE IF line.kind = "age"
    THEN LET pos == PyIndex(line.age - 1, Len(s1.ages)) IN
         IF pos = 0
         THEN [s1 EXCEPT !.exc = "IndexError"]
         ELSE ParseLines([s1 EXCEPT !.ages[pos] = <<line.age, line.bytes, line.total>>],
                         record_array, i + 1)
    ELSE IF line.kind = "realloc"
    THEN ParseLines([s1 EXCEPT
                       !.young_size_before_gc = Some(line.yb * 1024),
                       !.young_size_after_gc = Some(line.ya * 1024),
                       !.young_size_total = Some(line.yt * 1024),
                       !.young_gc_time = line.ygt,
                       !.total_heap_before_gc = Some(line.tb * 1024),
                       !.total_heap_after_gc = Some(line.ta * 1024),
                       !.total_heap = Some(line.tt * 1024),
                       !.total_gc_time = line.tgt,
                       !.og_used = Some(line.ta * 1024 - line.ya * 1024)],
                    record_array, i + 1)
    ELSE ParseLines(s1, record_array, i + 1)

\* GCRecord._parse_record
ParseRecordFields(self) ==
    LET record_array == self.raw_gc_record[2]
        s0 == ParseStw([self EXCEPT !.record_timestamp = Some(self.raw_gc_record[1])],
                       record_array)
    IN IF SweepGuard(s0) THEN ParseLines(s0, record_array, 1) ELSE s0

\* GCRecord(raw_gc_record)
GCRecord(raw_gc_record) == ParseRecordFields(NewRecord(raw_gc_record))

\* The uptime written in the stanza's header line.
HeaderUptime(record) == record.raw_gc_record[2][1].uptime

----------------------------------------------------------------------------
(* Parsing single stanzas: the header and body lines the parser is tried on *)

MaxBody == 3

Tag == Some("GC")

ParseHeaders ==
    {HdrLine(7, u, Tag, {}, "no", 0, None) : u \in {0, 200, 400}}
    \cup {HdrLine(7, 400, None, {}, "no", 0, None)}
    \cup {HdrLine(7, u, Tag, {m}, "no", 0, Some(5)) :
             u \in {200, 400}, m \in {"CMS Initial Mark", "CMS Final Remark", "Full GC"}}
    \cup {HdrLine(7, 400, Tag, {"Full GC"}, "no", 0, None)}
    \cup {HdrLine(7, u, Some("CMS-concurrent-sweep:"), {}, "match", 2, None) : u \in {200, 400}}
    \cup {HdrLine(7, 400, Tag, {}, "sub", 0, None)}

ParseBodyLines ==
    {ThresholdLine(1310720, 2, 2)}
    \cup {AgeLine(a, 10 * (a + 1), 60) : a \in 0..3}
    \cup {ReallocLine(8, 2, 16, 4, 20, 10, 64, 5)}
    \cup {OtherLine({"Full GC"}, "no", Some(9)),
          OtherLine({"CMS Final Remark"}, "no", None),
          OtherLine({}, "sub", None)}

RECURSIVE Bodies(_)
Bodies(n) ==
    IF n = 0 THEN {<<>>}
    ELSE Bodies(n - 1)
         \cup {Append(b, l) : b \in {x \in Bodies(n - 1) : Len(x) = n - 1},
                              l \in ParseBodyLines}

ParseStanzas == {<<h>> \o b : h \in ParseHeaders, b \in Bodies(MaxBody)}

InitParse ==
    /\ pc = "parse"
    /\ gc_data = <<>>
    /\ in_stanza = TRUE
    /\ entry \in ParseStanzas
    /\ date_time = Some(entry[1].ts)
    /\ gc_record = None
    /\ line_num = 0
    /\ analysis = None
    /\ jmap_data = None
    /\ optimized_for_ygcs_rate = DefaultRate
    /\ HelpersIdle

\* gc_record = GCRecord((date_time, entry))
ParseRecord ==
    /\ pc = "parse"
    /\ gc_record' = Some(GCRecord(<<Val(date_time), entry>>))
    /\ pc' = "parsed"
    /\ UNCHANGED <<gc_data, in_stanza, date_time, entry, line_num, analysis,
                   jmap_data, optimized_for_ygcs_rate>>
    /\ UNCHANGED helper_vars

NextParse == ParseRecord

SpecParse == InitParse /\ [][NextParse]_vars

----------------------------------------------------------------------------
(* _run_analysis: the aggregation loops *)

\* sec_diff(first_time, second_time), whole seconds
sec_diff(first_time, second_time) == second_time - first_time

\* "if any([second_gc.is_stw_gc, first_gc.is_stw_gc, first_gc.is_cms_gc,
\*          second_gc.is_cms_gc]): continue", negated
Qualifies(first_gc, second_gc) ==
    ~(second_gc.is_stw_gc \/ first_gc.is_stw_gc
        \/ first_gc.is_cms_gc \/ second_gc.is_cms_gc)

\* The result of a loop: the exception that ended it ("none" if it ran to
\* its end) and the list it built.
Built(val) == [exc |-> "none", val |-> val]
Raised(exc) == [exc |-> exc, val |-> <<>>]

\* One young-rate entry.  A size that is None raises TypeError inside the
\* try block, which sets both deltas to 0; dividing by a zero time_delta
\* raises outside of it.
YgEntrySwapped(first_gc, second_gc) ==
    LET time_delta == sec_diff(Val(first_gc.record_timestamp), Val(second_gc.record_timestamp))
        type_error == \/ second_gc.young_size_before_gc = None
                      \/ first_gc.young_size_after_gc = None
                      \/ second_gc.young_size_after_gc = None
        yg_size_delta == IF type_error THEN 0
                         ELSE Val(second_gc.young_size_before_gc)
                              - Val(first_gc.young_size_after_gc)
        yg_growth_delta == IF type_error THEN 0
                           ELSE Val(second_gc.young_size_after_gc)
                                - Val(first_gc.young_size_after_gc)
    IN IF time_delta = 0 THEN Raised("ZeroDivision")
       ELSE Built(<<Frac(yg_growth_delta, time_delta), Frac(yg_size_delta, time_delta)>>)
YgEntry(first_gc, second_gc) ==
    LET time_delta == sec_diff(Val(first_gc.record_timestamp), Val(second_gc.record_timestamp))
        type_error == \/ second_gc.young_size_before_gc = None
                      \/ first_gc.young_size_after_gc = None
                      \/ second_gc.young_size_after_gc = None
        yg_size_delta == IF type_error THEN 0
                         ELSE Val(second_gc.young_size_before_gc)
                              - Val(first_gc.young_size_after_gc)
        yg_growth_delta == IF type_error THEN 0
                           ELSE Val(second_gc.young_size_after_gc)
                                - Val(first_gc.young_size_after_gc)
    IN IF time_delta = 0 THEN Raised("ZeroDivision")
       ELSE Built(<<Frac(yg_size_delta, time_delta), Frac(yg_growth_delta, time_delta)>>)

\* "for first_gc, second_gc in zip(gc_data, gc_data[1:]):" building yg_rates
RECURSIVE YgLoop(_, _, _)
YgLoop(data, i, yg_rates) ==
    IF i >= Len(data) THEN Built(yg_rates)
    ELSE IF ~Qualifies(data[i], data[i + 1]) THEN YgLoop(data, i + 1, yg_rates)
    ELSE LET e == YgEntry(data[i], data[i + 1]) IN
         IF e.exc # "none" THEN e
         ELSE YgLoop(data, i + 1, Append(yg_rates, e.val))

\* "if og_allocation_delta > 0:"
OgRetainedNonNegative(og_allocation_delta) == og_allocation_delta[1] >= 0
OgRetained(og_allocation_delta) == og_allocation_delta[1] > 0

\* "for first_gc, second_gc in zip(gc_data, gc_data[1:]):" building og_rates
RECURSIVE OgLoop(_, _, _)
OgLoop(data, i, og_rates) ==
    IF i >= Len(data) THEN Built(og_rates)
    ELSE IF ~Qualifies(data[i], data[i + 1]) THEN OgLoop(data, i + 1, og_rates)
    ELSE LET first_gc == data[i]
             second_gc == data[i + 1]
             time_delta == sec_diff(Val(first_gc.record_timestamp),
                                    Val(second_gc.record_timestamp))
         IN
         IF second_gc.og_used = None \/ first_gc.og_used = None
         THEN Raised("TypeError")
         ELSE LET og_allocation_delta ==
                      Frac(Val(second_gc.og_used) - Val(first_gc.og_used), 1024)
              IN IF time_delta = 0 THEN Raised("ZeroDivision")
                 ELSE OgLoop(data, i + 1,
                        IF OgRetained(og_allocation_delta)
                        THEN Append(og_rates,
                                    FracMul(og_allocation_delta, Frac(1, time_delta)))
                        ELSE og_rates)

\* "for first_age, second_age in zip(first_gc.ages, second_gc.ages[1:]):"
\* from position j on; a sentinel in the later record is skipped without
\* appending anything.
RECURSIVE AgeLoop(_, _, _, _)
AgeLoop(first_ages, second_ages, j, survivor_death_rates) ==
    IF j > Len(first_ages) \/ j + 1 > Len(second_ages) THEN Built(survivor_death_rates)
    ELSE LET first_age == first_ages[j]
             second_age == second_ages[j + 1]
         IN IF second_age[2] = -1
            THEN AgeLoop(first_ages, second_ages, j + 1, survivor_death_rates)
            ELSE IF first_age[2] = 0 THEN Raised("ZeroDivision")
            ELSE AgeLoop(first_ages, second_ages, j + 1,
                         Append(survivor_death_rates,
                                FracSub(FracOfInt(1), Frac(second_age[2], first_age[2]))))

\* "for first_gc, second_gc in zip(gc_data, gc_data[1:]):" building
\* gc_survivor_death_rates
RECURSIVE SurvivorLoop(_, _, _)
SurvivorLoop(data, i, gc_survivor_death_rates) ==
    IF i >= Len(data) THEN Built(gc_survivor_death_rates)
    ELSE IF ~Qualifies(data[i], data[i + 1])
    THEN SurvivorLoop(data, i + 1, gc_survivor_death_rates)
    ELSE LET r == AgeLoop(data[i].ages, data[i + 1].ages, 1, <<>>) IN
         IF r.exc # "none" THEN r
         ELSE SurvivorLoop(data, i + 1, Append(gc_survivor_death_rates, r.val))

\* izip_longest(*gc_survivor_death_rates, fillvalue=0): column k
MaxLen(lists) ==
    IF lists = <<>> THEN 0
    ELSE LET lens == {Len(lists[i]) : i \in 1..Len(lists)}
         IN CHOOSE n \in lens : \A m \in lens : m <= n

Column(lists, k) ==
    [i \in 1..Len(lists) |-> IF k <= Len(lists[i]) THEN lists[i][k] ELSE FracOfInt(0)]

\* survivor_info[survivor_num] = min_pct, mean_pct, max_pct
SurvivorInfo(gc_survivor_death_rates) ==
    [survivor_num \in 1..MaxLen(gc_survivor_death_rates) |->
        LET pct_list == Column(gc_survivor_death_rates, survivor_num)
        IN <<FracMin(pct_list), mean(pct_list), FracMax(pct_list)>>]

\* cuml_pct after each survivor_num: the running product of (1 - mean_pct)
RECURSIVE CumlPct(_, _)
CumlPct(survivor_info, k) ==
    IF k = 0 THEN FracOfInt(1)
    ELSE FracMul(CumlPct(survivor_info, k - 1),
                 FracSub(FracOfInt(1), survivor_info[k][2]))

\* jvm_mem_cfg, from the first_gc left behind by the last loop (gc_data[-2])
JvmMemCfg(first_gc) ==
    LET survivor_size == Val(first_gc.desired_survivor_size) * 2
        eden_size == Val(first_gc.young_size_total) * 1024 - survivor_size
    IN [og_size |-> (Val(first_gc.total_heap) - Val(first_gc.young_size_total)) * 1024,
        survivor_size |-> survivor_size,
        eden_size |-> eden_size,
        total_heap |-> Val(first_gc.total_heap) * 1024 + survivor_size,
        new_size |-> eden_size + survivor_size * 2]

----------------------------------------------------------------------------
(* _get_survivor_info *)

survivor_problem_pct == 10

\* Python 2 "/" gives the floor when both operands are ints.
PyDiv(ints, x, y) == IF ints THEN FracOfInt(Floor(FracDiv(x, y))) ELSE FracDiv(x, y)

\* age_objects_still_alive: current_percentage starts at 100 and is
\* multiplied by (1 - mean death rate) for every key of survivor_info.
AgeObjectsStillAlive(survivor_info) ==
    [k \in 1..Len(survivor_info) |->
        FracMul(FracOfInt(100), CumlPct(survivor_info, k))]

\* The error_msg chosen by the checks on max_survivor_age; "IndexError" when
\* age_objects_still_alive[-1] is read from an empty list.
SurvivorErrorMsg(max_survivor_age, survivor_info, survivor_watermark) ==
    LET longest_used_ratio == Len(survivor_info) + 1
        alive == AgeObjectsStillAlive(survivor_info)
        no_stats == IF survivor_info = <<>> THEN "no statistics" ELSE ""
    IN IF PyLtNum(max_survivor_age, 15)
       THEN IF max_survivor_age # None /\ longest_used_ratio = Val(max_survivor_age)
            THEN IF alive = <<>> THEN "IndexError"
                 ELSE IF FracLt(Frac(100 - survivor_watermark, 100), alive[Len(alive)])
                 THEN "too small"
                 ELSE no_stats
            ELSE no_stats
       ELSE no_stats

\* "min([k for k, v in enumerate(age_objects_still_alive, 1)
\*       if v <= survivor_problem_pct])", 0 on ValueError
WatermarkAge(alive, problem_pct) ==
    LET S == {k \in 1..Len(alive) : FracLe(alive[k], FracOfInt(problem_pct))}
    IN IF S = {} THEN 0 ELSE CHOOSE k \in S : \A j \in S : k <= j

\* below_threshold_ct
BelowThresholdCt(death_ages) ==
    Cardinality({i \in 1..Len(death_ages) : FracLe(death_ages[i], Frac(4, 100))})

\* "if not max_tenuring_age:": the age chosen when no age is at the watermark
\* and the warning displayed with it.
FallbackAge(death_ages) ==
    IF FracLt(Frac(33, 100), Frac(BelowThresholdCt(death_ages), Len(death_ages)))
    THEN [age |-> Len(death_ages) - BelowThresholdCt(death_ages),
          warning |-> "threshold too high"]
    ELSE [age |-> 0, warning |-> "age too short"]

\* "tenure_sizes.append(gc_record.ages[max_tenuring_age - 1][2])", records
\* without that index skipped
RECURSIVE TenureSizes(_, _)
TenureSizes(data, max_tenuring_age) ==
    IF data = <<>> THEN <<>>
    ELSE LET pos == PyIndex(max_tenuring_age - 1, Len(data[1].ages)) IN
         (IF pos = 0 THEN <<>> ELSE <<FracOfInt(data[1].ages[pos][3])>>)
         \o TenureSizes(Tail(data), max_tenuring_age)

\* "if survivor_ratio < 1: survivor_ratio = 1; adj_ng_size = max_tenuring_size
\*  else: adj_ng_size += max_tenuring_size"
SurvivorClampGrowsTwice(adj_ng_size, max_tenuring_size, survivor_ratio) ==
    IF FracLt(survivor_ratio, FracOfInt(1))
    THEN [adj_ng_size |-> FracAdd(adj_ng_size, max_tenuring_size),
          survivor_ratio |-> FracOfInt(1), warning |-> {"ratio below 1"}]
    ELSE [adj_ng_size |-> FracAdd(adj_ng_size, max_tenuring_size),
          survivor_ratio |-> survivor_ratio, warning |-> {}]
SurvivorClampKeepsSize(adj_ng_size, max_tenuring_size, survivor_ratio) ==
    IF FracLt(survivor_ratio, FracOfInt(1))
    THEN [adj_ng_size |-> max_tenuring_size, survivor_ratio |-> FracOfInt(1),
          warning |-> {"ratio below 1"}]
    ELSE [adj_ng_size |-> adj_ng_size,
          survivor_ratio |-> survivor_ratio, warning |-> {}]
SurvivorClamp(adj_ng_size, max_tenuring_size, survivor_ratio) ==
    IF FracLt(survivor_ratio, FracOfInt(1))
    THEN [adj_ng_size |-> max_tenuring_size, survivor_ratio |-> FracOfInt(1),
          warning |-> {"ratio below 1"}]
    ELSE [adj_ng_size |-> FracAdd(adj_ng_size, max_tenuring_size),
          survivor_ratio |-> survivor_ratio, warning |-> {}]

\* What _get_survivor_info gave: exc is "none" when it returned, else the
\* exception it raised (error_msg holds a ValueError's message).
SurvivorResult(exc, error_msg) ==
    [exc |-> exc, error_msg |-> error_msg, warnings |-> {},
     age_objects_still_alive |-> <<>>, watermark_age |-> 0, selected_age |-> 0,
     max_tenuring_size |-> FracOfInt(0), computed_ratio |-> FracOfInt(0),
     pre_clamp_ng_size |-> FracOfInt(0), adj_ng_size |-> FracOfInt(0),
     survivor_ratio |-> FracOfInt(0), max_tenuring_age |-> FracOfInt(0)]

\* ints: curr_ng_size and adj_ng_size are both Python ints.
_get_survivor_info(death_ages, survivor_info, data, problem_pct, curr_ng_size, adj_ng_size, ints) ==
    LET ng_size_delta == FracSub(curr_ng_size, adj_ng_size)
        survivor_watermark == 100 - problem_pct
        max_survivor_age == data[1].max_threshold
        alive == AgeObjectsStillAlive(survivor_info)
        error_msg == SurvivorErrorMsg(max_survivor_age, survivor_info, survivor_watermark)
        watermark_age == WatermarkAge(alive, problem_pct)
        fallback == FallbackAge(death_ages)
        selected_age == IF watermark_age # 0 THEN watermark_age ELSE fallback.age
        tenure_sizes == TenureSizes(data, selected_age)
        max_tenuring_size == FracAdd(FracMul(FracMax(tenure_sizes), FracOfInt(2)),
                                     PyDiv(ints, ng_size_delta, FracOfInt(2)))
        survivor_ratio == PyDiv(ints, adj_ng_size, max_tenuring_size)
        clamp == SurvivorClamp(adj_ng_size, max_tenuring_size, survivor_ratio)
    IN
    IF curr_ng_size[1] = 0 THEN SurvivorResult("ZeroDivisionError", "")
    ELSE IF error_msg = "IndexError" THEN SurvivorResult("IndexError", "")
    ELSE IF error_msg # "" THEN SurvivorResult("ValueError", error_msg)
    ELSE IF tenure_sizes = <<>> THEN SurvivorResult("ValueError", "max of empty")
    ELSE IF max_tenuring_size[1] = 0 THEN SurvivorResult("ZeroDivisionError", "")
    ELSE LET ng_size_delta_pct == PyDiv(ints, adj_ng_size, curr_ng_size) IN
         IF ng_size_delta_pct[1] = 0 THEN SurvivorResult("ZeroDivisionError", "")
         ELSE [SurvivorResult("none", "") EXCEPT
                 !.warnings = (IF watermark_age = 0 THEN {fallback.warning} ELSE {})
                              \cup clamp.warning,
                 !.age_objects_still_alive = alive,
                 !.watermark_age = watermark_age,
                 !.selected_age = selected_age,
                 !.max_tenuring_size = max_tenuring_size,
                 !.computed_ratio = survivor_ratio,
                 !.pre_clamp_ng_size = adj_ng_size,
                 !.adj_ng_size = clamp.adj_ng_size,
                 !.survivor_ratio = clamp.survivor_ratio,
                 !.max_tenuring_age =
                     FracMul(FracOfInt(selected_age),
                             PyDiv(ints, FracOfInt(1), ng_size_delta_pct))]

----------------------------------------------------------------------------
(* _show_recommendations *)

ygc_time_goal_ms == 50
ygc_stdev_goal == 5
ygc_pctile == 75
ygc_count_goal == 10
fgc_count_goal == 3
pct_number == 99

\* "if jmap_data: ... else: ..." choosing curr_ng_size, curr_og_size, max_heap_size
CurrentSizes(jvm_mem_cfg, jmap) ==
    IF jmap # None
    THEN [curr_ng_size |-> Val(jmap).NewSize, curr_og_size |-> Val(jmap).OldSize,
          max_heap_size |-> Val(jmap).MaxHeapSize]
    ELSE [curr_ng_size |-> jvm_mem_cfg.new_size, curr_og_size |-> jvm_mem_cfg.og_size,
          max_heap_size |-> jvm_mem_cfg.total_heap]

\* "normal_gc_data = filter(lambda x: x.og_used > 0, gc_data)"
RECURSIVE NormalGcData(_)
NormalGcData(data) ==
    IF data = <<>> THEN <<>>
    ELSE (IF PyGt(data[1].og_used, Some(0)) THEN <<data[1]>> ELSE <<>>)
         \o NormalGcData(Tail(data))

\* live_data_size_bytes: None when no record has a larger og_used than the
\* next one, else the least og_used from the first such record on.
LiveDataSizeBytes(data) ==
    LET normal_gc_data == NormalGcData(data)
        drops == {i \in 1..(Len(normal_gc_data) - 1) :
                     Val(normal_gc_data[i].og_used) > Val(normal_gc_data[i + 1].og_used)}
    IN IF drops = {} THEN None
       ELSE LET record_num == CHOOSE i \in drops : \A j \in drops : i <= j IN
            Some(CHOOSE v \in {Val(normal_gc_data[i].og_used) :
                                  i \in record_num..Len(normal_gc_data)} :
                    \A i \in record_num..Len(normal_gc_data) :
                        v <= Val(normal_gc_data[i].og_used))

\* "if ygc_stdev > ygc_stdev_goal * 4: comment = ... elif ... else: ...", with
\* ready_for_g1 starting False and set in the last two branches.
ConsistencyReadyBelowFour(times) ==
    IF StdevGt(times, ygc_stdev_goal * 4)
    THEN [comment |-> "VERY inconsistent", ready_for_g1 |-> FALSE]
    ELSE IF StdevGt(times, ygc_stdev_goal * 2)
    THEN [comment |-> "pretty inconsistent", ready_for_g1 |-> TRUE]
    ELSE IF StdevGt(times, ygc_stdev_goal)
    THEN [comment |-> "somewhat consistent", ready_for_g1 |-> TRUE]
    ELSE [comment |-> "very consistent", ready_for_g1 |-> TRUE]
Consistency(times) ==
    IF StdevGt(times, ygc_stdev_goal * 4)
    THEN [comment |-> "VERY inconsistent", ready_for_g1 |-> FALSE]
    ELSE IF StdevGt(times, ygc_stdev_goal * 2)
    THEN [comment |-> "pretty inconsistent", ready_for_g1 |-> FALSE]
    ELSE IF StdevGt(times, ygc_stdev_goal)
    THEN [comment |-> "somewhat consistent", ready_for_g1 |-> TRUE]
    ELSE [comment |-> "very consistent", ready_for_g1 |-> TRUE]

\* The branch of "if (optimized_for_ygcs_rate > ygc_rate) and (ygc_stdev >
\* ygc_stdev_goal or ygc_mean_ms > ygc_time_goal_ms): ... elif ygc_mean_ms >
\* ygc_time_goal_ms: ... else: ..."
RegimeTimeFirst(target_rate, ygc_rate, stdev_over, pause_over) ==
    IF pause_over THEN "time"
    ELSE IF FracLt(ygc_rate, target_rate) /\ (stdev_over \/ pause_over) THEN "rate"
    ELSE "tuned"
Regime(target_rate, ygc_rate, stdev_over, pause_over) ==
    IF FracLt(ygc_rate, target_rate) /\ (stdev_over \/ pause_over) THEN "rate"
    ELSE IF pause_over THEN "time"
    ELSE "tuned"

\* adj_ng_size as the chosen branch sets it before _get_survivor_info
PreSurvivorSize(regime, curr_ng_size, target_rate, ygc_rate, ygc_mean_ms) ==
    IF regime = "rate"
    THEN FracMul(FracOfInt(curr_ng_size), FracDiv(ygc_rate, target_rate))
    ELSE IF regime = "time"
    THEN FracMul(FracOfInt(curr_ng_size), FracDiv(FracOfInt(ygc_time_goal_ms), ygc_mean_ms))
    ELSE FracOfInt(curr_ng_size)

\* "if len(full_gc_times) < fgc_count_goal:"
TooFewFullGcs(full_gc_times) == Len(full_gc_times) < fgc_count_goal

\* oldgen_offset and occ_fraction
OccFraction(curr_og_size, yg_alloc_rates, max_og_rate, max_cms_time) ==
    LET oldgen_offset ==
            FracSub(FracSub(FracOfInt(curr_og_size),
                            FracMul(FracDiv(_max(yg_alloc_rates), FracOfInt(1024)),
                                    max_cms_time)),
                    FracMul(max_cms_time, max_og_rate))
    IN Floor(FracMul(FracDiv(oldgen_offset, FracOfInt(curr_og_size)), FracOfInt(100)))

\* How _show_recommendations ended and what it displayed.
\*   halt "none": ran to its end; "survivor_error": return False after the
\*   ValueError of _get_survivor_info; "fgc_count": return False for too few
\*   full GCs; "raised": exc left the function.
\*   reported: the results displayed; diagnostics: the warnings and errors.
Recommendation(halt, exc) ==
    [halt |-> halt, exc |-> exc, regime |-> "", comment |-> "", ready_for_g1 |-> FALSE,
     ygc_mean_ms |-> FracOfInt(0), curr_ng_size |-> 0, curr_og_size |-> 0,
     max_heap_size |-> 0, pre_survivor_ng_size |-> FracOfInt(0),
     survivor |-> SurvivorResult("none", ""), adj_ng_size |-> FracOfInt(0),
     live_data_size_bytes |-> None, reported |-> {}, diagnostics |-> {},
     recommended_max_heap_size |-> FracOfInt(0), max_cms_time |-> FracOfInt(0),
     max_og_rate |-> FracOfInt(0), occ_fraction |-> 0, xmn |-> FracOfInt(0)]

_show_recommendations(death_ages, young_gc_times, full_gc_times, ygc_rate, yg_alloc_rates, og_rates, jvm_mem_cfg, jmap, data, cms_times, survivor_info, target_rate) ==
    LET trimmed == percentile(young_gc_times, ygc_pctile) IN
    IF trimmed.exc # "none" THEN Recommendation("raised", trimmed.exc)
    ELSE
    LET ygc_mean_ms == FracMax(trimmed.val)
        stdev_over == StdevGt(trimmed.val, ygc_stdev_goal)
        pause_over == FracLt(FracOfInt(ygc_time_goal_ms), ygc_mean_ms)
        sizes == CurrentSizes(jvm_mem_cfg, jmap)
        live_data_size_bytes == LiveDataSizeBytes(data)
        consistency == Consistency(trimmed.val)
        regime == Regime(target_rate, ygc_rate, stdev_over, pause_over)
        pre == PreSurvivorSize(regime, sizes.curr_ng_size, target_rate, ygc_rate,
                               ygc_mean_ms)
        sv == _get_survivor_info(death_ages, survivor_info, data, survivor_problem_pct,
                                 FracOfInt(sizes.curr_ng_size), pre, regime = "tuned")
        few == IF Len(young_gc_times) < ygc_count_goal THEN {"few young GCs"} ELSE {}
        base == [Recommendation("none", "none") EXCEPT
                   !.regime = regime, !.comment = consistency.comment,
                   !.ready_for_g1 = consistency.ready_for_g1,
                   !.ygc_mean_ms = ygc_mean_ms,
                   !.curr_ng_size = sizes.curr_ng_size,
                   !.curr_og_size = sizes.curr_og_size,
                   !.max_heap_size = sizes.max_heap_size,
                   !.pre_survivor_ng_size = pre,
                   !.survivor = sv,
                   !.live_data_size_bytes = live_data_size_bytes,
                   !.diagnostics = few]
    IN
    IF sv.exc = "ValueError"
    THEN [base EXCEPT !.halt = "survivor_error",
                      !.diagnostics = few \cup {"Error: " \o sv.error_msg}]
    ELSE IF sv.exc # "none" THEN [base EXCEPT !.halt = "raised", !.exc = sv.exc]
    ELSE
    LET messages == IF regime = "tuned" THEN {"ygc summary"}
                    ELSE {"new_gen_size"}
                         \cup (IF FracLt(sv.adj_ng_size, FracOfInt(sizes.curr_ng_size))
                               THEN {"load impact"} ELSE {})
        stage2 == [base EXCEPT
                     !.adj_ng_size = sv.adj_ng_size,
                     !.diagnostics = few \cup sv.warnings,
                     !.reported = messages \cup {"tenuring_threshold", "survivor_size",
                                                 "survivor_ratio"}]
    IN
    IF TooFewFullGcs(full_gc_times)
    THEN [stage2 EXCEPT !.halt = "fgc_count",
                        !.diagnostics = @ \cup {"Error: too few full GCs"}]
    ELSE IF live_data_size_bytes = None
    THEN [stage2 EXCEPT !.halt = "raised", !.exc = "TypeError"]
    ELSE
    LET recommended_max_heap_size ==
            FracAdd(FracMul(Frac(35, 10), FracOfInt(Val(live_data_size_bytes))),
                    FracAdd(sv.max_tenuring_size, sv.adj_ng_size))
        stage3 == [stage2 EXCEPT
                     !.recommended_max_heap_size = recommended_max_heap_size,
                     !.reported = @ \cup
                        (IF FracOfInt(sizes.max_heap_size) # recommended_max_heap_size
                         THEN {"max_heap_size"} ELSE {})]
        max_cms_time == _max(cms_times)
        top == percentile(og_rates, pct_number)
    IN
    IF top.exc # "none" THEN [stage3 EXCEPT !.halt = "raised", !.exc = top.exc]
    ELSE IF sizes.curr_og_size = 0
    THEN [stage3 EXCEPT !.halt = "raised", !.exc = "ZeroDivisionError"]
    ELSE
    LET max_og_rate == FracMul(_max(top.val), FracOfInt(1024)) IN
    [stage3 EXCEPT
       !.max_cms_time = max_cms_time,
       !.max_og_rate = max_og_rate,
       !.occ_fraction = OccFraction(sizes.curr_og_size, yg_alloc_rates, max_og_rate,
                                    max_cms_time),
       !.xmn = sv.adj_ng_size,
       !.reported = @ \cup {"occ_fraction", "g1", "jvm_args"}]

----------------------------------------------------------------------------
(* _run_analysis as a whole *)

\* How _run_analysis ended and what it had built.
\*   stage "exit": sys.exit(1); "insufficient": return False with fewer than
\*   two records; "raised": an exception left the function before its report;
\*   "aggregated": the rate, survivor and memory-configuration stages
\*   completed, the report was displayed and _show_recommendations was
\*   called, with the result held in recommendation.
Outcome(stage, why) ==
    [stage |-> stage, why |-> why, yg_rates |-> <<>>, og_rates |-> <<>>,
     gc_survivor_death_rates |-> <<>>, survivor_info |-> <<>>,
     death_ages |-> <<>>, cuml_pct |-> <<>>, jvm_mem_cfg |-> None,
     sample_time_secs |-> 0, sample_gc_time |-> 0,
     sample_gc_load |-> FracOfInt(0), efficiency |-> FracOfInt(0),
     young_gc_times |-> <<>>, full_gc_times |-> <<>>, cms_times |-> <<>>,
     ygc_rate |-> FracOfInt(0), recommendation |-> None]

\* "[record.young_gc_time * 1000 for record in gc_data if not record.is_stw_gc]"
RECURSIVE YoungGcTimes(_)
YoungGcTimes(data) ==
    IF data = <<>> THEN <<>>
    ELSE (IF ~data[1].is_stw_gc THEN <<FracOfInt(data[1].young_gc_time)>> ELSE <<>>)
         \o YoungGcTimes(Tail(data))

\* "[record.stw_time * 1000 for record in gc_data if record.is_stw_gc]"
RECURSIVE FullGcTimes(_)
FullGcTimes(data) ==
    IF data = <<>> THEN <<>>
    ELSE (IF data[1].is_stw_gc THEN <<FracOfInt(data[1].stw_time)>> ELSE <<>>)
         \o FullGcTimes(Tail(data))

\* "[record.cms_sweep_time for record in gc_data if record.is_cms_gc]"
RECURSIVE CmsTimes(_)
CmsTimes(data) ==
    IF data = <<>> THEN <<>>
    ELSE (IF data[1].is_cms_gc THEN <<FracOfInt(Val(data[1].cms_sweep_time))>> ELSE <<>>)
         \o CmsTimes(Tail(data))

\* "sample_gc_load = (sample_gc_time / Decimal(str(sample_time_secs))) * 100",
\* with sample_gc_time in milliseconds
SampleGcLoad(sample_gc_time, sample_time_secs) ==
    FracMul(Frac(sample_gc_time, 1000 * sample_time_secs), FracOfInt(100))

RECURSIVE SumTotalGcTime(_)
SumTotalGcTime(data) ==
    IF data = <<>> THEN 0 ELSE data[1].total_gc_time + SumTotalGcTime(Tail(data))

\* "if len(gc_data) < 2:"
TooFewRecordsBelowOne(data) == Len(data) < 1
TooFewRecords(data) == Len(data) < 2

_run_analysis(data, jmap, target_rate) ==
    IF data = <<>> THEN Outcome("exit", "no data")
    ELSE IF TooFewRecords(data) THEN Outcome("insufficient", "fewer than 2 records")
    ELSE
    LET sample_time_secs == sec_diff(Val(data[1].record_timestamp),
                                     Val(data[Len(data)].record_timestamp))
        yg == YgLoop(data, 1, <<>>)
        og == OgLoop(data, 1, <<>>)
        sv == SurvivorLoop(data, 1, <<>>)
        first_gc == data[Len(data) - 1]
    IN
    IF sample_time_secs = 0 THEN Outcome("raised", "sample_gc_load: ZeroDivision")
    ELSE IF yg.exc # "none" THEN Outcome("raised", "yg_rates: " \o yg.exc)
    ELSE IF og.exc # "none" THEN Outcome("raised", "og_rates: " \o og.exc)
    ELSE IF sv.exc # "none" THEN Outcome("raised", "survivor: " \o sv.exc)
    ELSE IF first_gc.total_heap = None \/ first_gc.young_size_total = None
    THEN Outcome("exit", "no non CMS/FGC record")
    ELSE IF first_gc.desired_survivor_size = None
    THEN Outcome("raised", "jvm_mem_cfg: TypeError")
    ELSE LET survivor_info == SurvivorInfo(sv.val)
             death_ages == [k \in DOMAIN survivor_info |-> survivor_info[k][2]]
             young_gc_times == YoungGcTimes(data)
             full_gc_times == FullGcTimes(data)
             cms_times == CmsTimes(data)
             ygc_rate == Frac(Len(young_gc_times) * 60, sample_time_secs)
             sample_gc_load == SampleGcLoad(SumTotalGcTime(data), sample_time_secs)
             jvm_mem_cfg == JvmMemCfg(first_gc)
         IN
         [Outcome("aggregated", "") EXCEPT
            !.sample_gc_load = sample_gc_load,
            !.efficiency = FracSub(FracOfInt(100), sample_gc_load),
            !.young_gc_times = young_gc_times,
            !.full_gc_times = full_gc_times,
            !.cms_times = cms_times,
            !.ygc_rate = ygc_rate,
            !.recommendation =
                Some(_show_recommendations(
                        death_ages, young_gc_times, full_gc_times, ygc_rate,
                        [i \in 1..Len(yg.val) |-> yg.val[i][1]], og.val, jvm_mem_cfg,
                        jmap, data, cms_times, survivor_info, target_rate)),
            !.yg_rates = yg.val,
            !.og_rates = og.val,
            !.gc_survivor_death_rates = sv.val,
            !.survivor_info = survivor_info,
            !.death_ages = death_ages,
            !.cuml_pct = [k \in DOMAIN survivor_info |-> CumlPct(survivor_info, k)],
            !.jvm_mem_cfg = Some(jvm_mem_cfg),
            !.sample_time_secs = sample_time_secs,
            !.sample_gc_time = SumTotalGcTime(data)]

----------------------------------------------------------------------------
(* _at_exit: the stanza loop *)

MaxLines == 5

\* The lines the log may hold at position ts; a header's timestamp is its
\* position, so timestamps increase along the log.
IngestLines(ts) ==
    {HdrLine(ts, u, Tag, {}, "no", 0, None) : u \in {200, 400, 500}}
    \cup {HdrLine(ts, u, Tag, {"Full GC"}, "no", 0, Some(5)) : u \in {200, 500}}
    \cup {HdrLine(ts, u, Some("CMS-concurrent-sweep:"), {}, "match", 2, None) : u \in {200, 500}}
    \cup {ThresholdLine(1310720, 2, 2), AgeLine(1, 10, 10),
          ReallocLine(8, 2, 16, 4, 20, 10, 64, 5)}

\* "if gc_record.jvm_running_time and
\*      prev_gc_record.jvm_running_time > gc_record.jvm_running_time:"
RestartDetected(prev_gc_record, record) ==
    /\ Truthy(record.jvm_running_time)
    /\ PyGt(prev_gc_record.jvm_running_time, record.jvm_running_time)

\* "if gc_data: ... gc_data = list()"
AfterRestartCheck(data, record) ==
    IF data # <<>> /\ RestartDetected(data[Len(data)], record) THEN <<>> ELSE data

\* "if gc_record.valid_record: gc_data.append(gc_record)"
AppendIfValid(data, record) ==
    IF record.valid_record THEN Append(data, record) ELSE data

\* "if date_time and entry:"
AtBlockStart == date_time # None /\ entry # <<>>

InitIngest ==
    /\ pc = "ingest"
    /\ gc_data = <<>>
    /\ in_stanza = FALSE
    /\ date_time = None
    /\ entry = <<>>
    /\ gc_record = None
    /\ line_num = 0
    /\ analysis = None
    /\ jmap_data = None
    /\ optimized_for_ygcs_rate = DefaultRate
    /\ HelpersIdle

\* One iteration of "for line in raw_gc_log:" on a line that matches the
\* stanza delimiter: the previous block is parsed and saved, a new block begins.
ReadHeader(line) ==
    /\ line.kind = "hdr"
    /\ IF AtBlockStart
       THEN LET record == GCRecord(<<Val(date_time), entry>>) IN
            /\ gc_record' = Some(record)
            /\ IF record.exc # "none"
               THEN /\ pc' = "crashed"
                    /\ UNCHANGED <<gc_data, in_stanza, date_time, entry>>
               ELSE /\ gc_data' = AppendIfValid(AfterRestartCheck(gc_data, record), record)
                    /\ in_stanza' = TRUE
                    /\ entry' = <<line>>
                    /\ date_time' = Some(line.ts)
                    /\ pc' = pc
       ELSE /\ in_stanza' = TRUE
            /\ entry' = <<line>>
            /\ date_time' = Some(line.ts)
            /\ UNCHANGED <<pc, gc_data, gc_record>>

\* One iteration on any other line: "if in_stanza: entry.append(line)"
ReadBody(line) ==
    /\ line.kind # "hdr"
    /\ entry' = IF in_stanza THEN Append(entry, line) ELSE entry
    /\ UNCHANGED <<pc, gc_data, in_stanza, date_time, gc_record>>

ReadLine ==
    /\ pc = "ingest"
    /\ line_num < MaxLines
    /\ line_num' = line_num + 1
    /\ UNCHANGED <<analysis, jmap_data, optimized_for_ygcs_rate>>
    /\ UNCHANGED helper_vars
    /\ \E line \in IngestLines(line_num + 1) : ReadHeader(line) \/ ReadBody(line)

\* The log ends, after the "END_OF_FILE" line when process_gclog read the
\* whole file and without it when the lines were cut off: the loop appends
\* that line like any other, and then _run_analysis(gc_data, ...)
EndOfLog ==
    /\ pc = "ingest"
    /\ \E whole_file \in BOOLEAN :
          entry' = IF whole_file /\ in_stanza THEN Append(entry, EndOfFileLine) ELSE entry
    /\ analysis' = Some(_run_analysis(gc_data, jmap_data, optimized_for_ygcs_rate))
    /\ pc' = "done"
    /\ UNCHANGED <<gc_data, in_stanza, date_time, gc_record, line_num,
                   jmap_data, optimized_for_ygcs_rate>>
    /\ UNCHANGED helper_vars

Init == InitIngest

Next == ReadLine \/ EndOfLog

Spec == Init /\ [][Next]_vars

----------------------------------------------------------------------------
(* _run_analysis on accumulated events of every type and timing *)

MaxEvents == 3

Threshold3 == ThresholdLine(1310720, 3, 3)

\* Stanza bodies of young collections: all ages present; age 2 missing and a
\* smaller old generation; no reallocation line; an age holding 0 bytes.
YoungBodies ==
    {<<Threshold3, AgeLine(1, 100, 100), AgeLine(2, 50, 150), AgeLine(3, 20, 170),
       ReallocLine(8, 2, 16, 4, 20, 10, 64, 5)>>,
     <<Threshold3, AgeLine(1, 80, 80), AgeLine(3, 10, 90),
       ReallocLine(6, 4, 16, 3, 12, 9, 64, 4)>>,
     <<Threshold3, AgeLine(1, 100, 100)>>,
     <<Threshold3, AgeLine(1, 40, 40), AgeLine(2, 0, 40), AgeLine(3, 5, 45),
       ReallocLine(8, 2, 16, 4, 20, 10, 64, 5)>>}

\* Wall-clock timestamps of the stanzas; the log's clock may step back.
AnalysisTimes == {10, 12, 13}

AnalysisStanzas ==
    {<<HdrLine(ts, 400, Tag, {}, "no", 0, None)>> \o b : ts \in AnalysisTimes, b \in YoungBodies}
    \cup {<<HdrLine(ts, 400, Tag, {"Full GC"}, "no", 0, Some(5))>> : ts \in AnalysisTimes}
    \cup {<<HdrLine(ts, 400, Some("CMS-concurrent-sweep:"), {}, "match", 2, None)>> :
             ts \in AnalysisTimes}

\* The records _at_exit accumulates from them (all are valid).
AnalysisRecords ==
    {r \in {GCRecord(<<st[1].ts, st>>) : st \in AnalysisStanzas} :
        r.valid_record /\ r.exc = "none"}

RECURSIVE SeqsUpTo(_, _)
SeqsUpTo(S, n) ==
    IF n = 0 THEN {<<>>}
    ELSE SeqsUpTo(S, n - 1)
         \cup {Append(q, x) : q \in {y \in SeqsUpTo(S, n - 1) : Len(y) = n - 1}, x \in S}

InitAnalysis ==
    /\ pc = "analysis"
    /\ gc_data \in SeqsUpTo(AnalysisRecords, MaxEvents)
    /\ in_stanza = TRUE
    /\ date_time = None
    /\ entry = <<>>
    /\ gc_record = None
    /\ line_num = 0
    /\ analysis = None
    /\ jmap_data = None
    /\ optimized_for_ygcs_rate = DefaultRate
    /\ HelpersIdle

RunAnalysis ==
    /\ pc = "analysis"
    /\ analysis' = Some(_run_analysis(gc_data, jmap_data, optimized_for_ygcs_rate))
    /\ pc' = "done"
    /\ UNCHANGED <<gc_data, in_stanza, date_time, entry, gc_record, line_num,
                   jmap_data, optimized_for_ygcs_rate>>
    /\ UNCHANGED helper_vars

NextAnalysis == RunAnalysis

SpecAnalysis == InitAnalysis /\ [][NextAnalysis]_vars

----------------------------------------------------------------------------
(* _run_analysis on logs that reach the recommendation stages *)

MaxCollections == 4
MaxYoung == 3

RecThreshold == ThresholdLine(256, 3, 3)

\* "- age 1: a1 bytes, a1 total" and so on, the totals running
AgeLines(a1, a2, a3) ==
    <<AgeLine(1, a1, a1), AgeLine(2, a2, a1 + a2), AgeLine(3, a3, a1 + a2 + a3)>>

\* ": 3K->1K(4K), ygt secs] (ta+2)K->taK(8K), tgt secs]"
RecRealloc(ygt, ta) == ReallocLine(3, 1, 4, ygt, ta + 2, ta, 8, ygt + 1)

\* Young collections whose old generation holds 1K, 2K or 3K after them.
SteadyYoung ==
    {[hdr |-> "young",
      body |-> <<RecThreshold>> \o AgeLines(100, 50, 4) \o <<RecRealloc(4, ta)>>] :
        ta \in {2, 3, 4}}

\* Young collections that differ in how their cohorts die and in their
\* pause: a first cohort that hardly dies, cohorts that stay alive with a
\* long pause, large survivors with an uneven pause, a last age never used
\* with a pause a little longer than the usual one.
VariedYoung ==
    {[hdr |-> "young",
      body |-> <<RecThreshold>> \o AgeLines(100, 50, 4) \o <<RecRealloc(4, 2)>>],
     [hdr |-> "young",
      body |-> <<RecThreshold>> \o AgeLines(100, 98, 50) \o <<RecRealloc(4, 2)>>],
     [hdr |-> "young",
      body |-> <<RecThreshold>> \o AgeLines(100, 60, 40) \o <<RecRealloc(60, 2)>>],
     [hdr |-> "young",
      body |-> <<RecThreshold>> \o AgeLines(3000, 500, 40) \o <<RecRealloc(30, 2)>>],
     [hdr |-> "young",
      body |-> <<RecThreshold, AgeLine(1, 100, 100), AgeLine(2, 50, 150),
                 RecRealloc(14, 2)>>]}

FullGc == [hdr |-> "full", body |-> <<>>]
Sweep == [hdr |-> "sweep", body |-> <<>>]

\* The stanza of a shape, written at second ts with the JVM up for 400 s.
StanzaAt(shape, ts) ==
    <<IF shape.hdr = "full" THEN HdrLine(ts, 400, Tag, {"Full GC"}, "no", 0, Some(5))
      ELSE IF shape.hdr = "sweep"
      THEN HdrLine(ts, 400, Some("CMS-concurrent-sweep:"), {}, "match", 2, None)
      ELSE HdrLine(ts, 400, Tag, {}, "no", 0, None)>> \o shape.body

\* The records _at_exit accumulates from a log of these stanzas, one stanza
\* every step seconds.
RecordsEvery(shapes, step) ==
    [i \in 1..Len(shapes) |-> GCRecord(<<step * i, StanzaAt(shapes[i], step * i)>>)]

\* One stanza every two seconds.
RecordsOf(shapes) == RecordsEvery(shapes, 2)

\* Short logs of any order, and long logs of collector events followed by
\* young collections.
ShortLogs == SeqsUpTo(VariedYoung \cup {FullGc}, MaxEvents)
LongLogs ==
    {c \o y : c \in SeqsUpTo({FullGc, Sweep}, MaxCollections),
              y \in SeqsUpTo(SteadyYoung, MaxYoung)}

\* On a quiet JVM the short logs have one stanza every QuietStep seconds.
QuietStep == 5

\* A jmap snapshot of the same JVM: 4K new generation, 4K old generation.
JmapSnapshots ==
    {None, Some([NewSize |-> 4096, OldSize |-> 4096, MaxHeapSize |-> 8192])}

\* --optimize 0 and --optimize 11
TargetRates == {OptimizedRate(FracOfInt(0)), OptimizedRate(FracOfInt(11))}

InitRecommend ==
    /\ pc = "analysis"
    /\ gc_data \in {RecordsOf(q) : q \in ShortLogs \cup LongLogs}
                     \cup {RecordsEvery(q, QuietStep) : q \in ShortLogs}
    /\ in_stanza = TRUE
    /\ date_time = None
    /\ entry = <<>>
    /\ gc_record = None
    /\ line_num = 0
    /\ analysis = None
    /\ jmap_data \in JmapSnapshots
    /\ optimized_for_ygcs_rate \in TargetRates
    /\ HelpersIdle

SpecRecommend == InitRecommend /\ [][NextAnalysis]_vars

----------------------------------------------------------------------------
(* Properties of the record parser, checked under SpecParse *)

Parsed == pc = "parsed"
rec == Val(gc_record)

StwMarkers == {"CMS Initial Mark", "CMS Final Remark", "Full GC"}

\* The stop-the-world rule applies: a marker somewhere, a pause token in the last line.
StwRuleFires(record_array) ==
    /\ \E m \in StwMarkers : AnyLineHas(record_array, m)
    /\ LastLinePause(record_array) # None

ThresholdIdx(record_array) ==
    {i \in 1..Len(record_array) : record_array[i].kind = "threshold"}

AgeIdx(record_array) ==
    {i \in 1..Len(record_array) : record_array[i].kind = "age"}

\* The stanza has an age line naming age 0, an age above the declared max,
\* or an age ahead of every threshold line.
HasStrayAge(record_array) ==
    \E j \in AgeIdx(record_array) :
        \/ record_array[j].age = 0
        \/ \A i \in ThresholdIdx(record_array) : i > j
        \/ \E i \in ThresholdIdx(record_array) : record_array[j].age > record_array[i].max

\* C3: a stanza with a threshold line declaring max=M that is parsed into a
\* young-collection record gives an ages list of length exactly M whose slot
\* i holds age i, (age, -1, -1) for every age without an age line and the
\* bytes and total of its age line for every age that has one.
C3_AgesFollowThresholdLine ==
    (Parsed /\ rec.exc = "none" /\ rec.valid_record
        /\ ~rec.is_stw_gc /\ ~rec.is_cms_gc /\ ThresholdIdx(entry) # {})
    => \A t \in ThresholdIdx(entry) :
        LET M == entry[t].max IN
        /\ Len(rec.ages) = M
        /\ \A a \in 1..M :
            /\ rec.ages[a][1] = a
            /\ (\A j \in AgeIdx(entry) : entry[j].age # a)
                  => rec.ages[a] = <<a, -1, -1>>
            /\ \A j \in AgeIdx(entry) :
                  entry[j].age = a
                  => rec.ages[a] = <<a, entry[j].bytes, entry[j].total>>

\* C4: constructing a GCRecord never raises, and a stanza whose age lines
\* name age 0, an age above the declared max or an age ahead of any
\* threshold line gives valid_record = false.
C4_ParserNeverRaises ==
    Parsed => /\ rec.exc = "none"
              /\ (HasStrayAge(entry) /\ ~rec.is_stw_gc /\ ~rec.is_cms_gc)
                    => ~rec.valid_record

\* C6: a stanza with a Full GC / CMS Initial Mark / CMS Final Remark marker
\* whose last line carries a pause token is valid, stop-the-world, not a
\* concurrent sweep, typed FULL with a Full GC marker and CMS-STW otherwise,
\* and its stw_time is that pause value, counted once.
C6_StwPauseCountedOnce ==
    (Parsed /\ StwRuleFires(entry))
    => /\ rec.valid_record /\ rec.is_stw_gc /\ ~rec.is_cms_gc
       /\ rec.gc_type = IF AnyLineHas(entry, "Full GC") THEN Some("FULL") ELSE Some("CMS-STW")
       /\ rec.stw_time = Val(LastLinePause(entry))

\* C7 as claimed: a stanza whose header matches the concurrent-sweep pattern
\* is a concurrent sweep (is_cms_gc, not is_stw_gc, sweep duration taken),
\* whatever stop-the-world markers it also contains.
C7_SweepBeforeStw ==
    (Parsed /\ entry[1].sweep = "match")
    => /\ rec.is_cms_gc /\ ~rec.is_stw_gc
       /\ rec.cms_sweep_time = Some(entry[1].sweep_secs)

\* C7 amended: the stop-the-world rule has priority.  When it applies the
\* record is stop-the-world and not a concurrent sweep even if the header
\* matches the concurrent-sweep pattern; the concurrent-sweep rule applies
\* only to stanzas on which the stop-the-world rule did not fire.
C7_StwBeforeSweep ==
    Parsed =>
      /\ StwRuleFires(entry)
           => /\ rec.is_stw_gc /\ ~rec.is_cms_gc
              /\ rec.cms_sweep_time = None /\ rec.jvm_running_time = None
      /\ (entry[1].sweep = "match" /\ ~StwRuleFires(entry))
           => /\ rec.is_cms_gc /\ ~rec.is_stw_gc /\ rec.valid_record
              /\ rec.gc_type = Some("CMS")
              /\ rec.cms_sweep_time = Some(entry[1].sweep_secs)
              /\ rec.jvm_running_time = Some(entry[1].uptime)

\* A sweep header in a stanza on which the stop-the-world rule fired.
C7_Witness ==
    /\ Parsed /\ entry[1].sweep = "match" /\ StwRuleFires(entry)
    /\ rec.is_stw_gc /\ rec.gc_type = Some("FULL")

----------------------------------------------------------------------------
(* Properties of the stanza loop, checked under Spec *)

\* The uptime of an accumulated event: the one the record carries, else the
\* one in its stanza header.
EventUptime(record) ==
    IF record.jvm_running_time # None THEN Val(record.jvm_running_time)
    ELSE HeaderUptime(record)

\* C1: when the record parsed at a block start carries an uptime lower than
\* the uptime of the last accumulated event, every accumulated event is
\* discarded before the record is considered for appending: right after the
\* step the collection holds at most the new record.
C1_RestartDiscardsHistory ==
    [][(gc_record' # gc_record /\ gc_data # <<>>
          /\ Val(gc_record').jvm_running_time # None
          /\ Val(Val(gc_record').jvm_running_time) < EventUptime(gc_data[Len(gc_data)]))
       => gc_data' \in {<<>>, <<Val(gc_record')>>}]_vars

\* C2: the accumulated events are uptime-monotonic by their stanza headers,
\* whatever the types of the events.
C2_UptimeMonotonic ==
    \A i, j \in 1..Len(gc_data) :
        i < j => HeaderUptime(gc_data[i]) <= HeaderUptime(gc_data[j])

\* C5 as claimed: every parsed event whose header uptime is below the
\* warm-up floor is invalid and is never among the accumulated events,
\* whatever its type.
C5_FloorForEveryType ==
    /\ (gc_record # None /\ HeaderUptime(rec) < WarmupFloor) => ~rec.valid_record
    /\ \A i \in 1..Len(gc_data) : HeaderUptime(gc_data[i]) >= WarmupFloor

\* C5 amended: every parsed event that is neither stop-the-world nor a
\* concurrent sweep and whose header uptime is below the warm-up floor is
\* invalid and is never among the accumulated events, however much of its
\* stanza parsed; stop-the-world and concurrent-sweep events are not held
\* to the floor.
C5_FloorForYoungOnly ==
    /\ (gc_record # None /\ rec.exc = "none" /\ HeaderUptime(rec) < WarmupFloor
          /\ ~rec.is_stw_gc /\ ~rec.is_cms_gc)
       => ~rec.valid_record
    /\ \A i \in 1..Len(gc_data) :
          /\ gc_data[i].valid_record
          /\ (~gc_data[i].is_stw_gc /\ ~gc_data[i].is_cms_gc)
                => HeaderUptime(gc_data[i]) >= WarmupFloor

\* A young stanza below the floor with its threshold and reallocation lines
\* was parsed and rejected, after an event had been accumulated.
C5_Witness ==
    /\ gc_data # <<>>
    /\ gc_record # None /\ HeaderUptime(rec) < WarmupFloor
    /\ ~rec.is_stw_gc /\ ~rec.is_cms_gc /\ ~rec.valid_record
    /\ \E i, j \in 2..Len(rec.raw_gc_record[2]) :
          /\ rec.raw_gc_record[2][i].kind = "threshold"
          /\ rec.raw_gc_record[2][j].kind = "realloc"

----------------------------------------------------------------------------
(* Properties of the aggregation stages, checked under SpecAnalysis *)

Aggregated == analysis # None /\ Val(analysis).stage = "aggregated"
result == Val(analysis)

IsCollectorEvent(record) == record.is_stw_gc \/ record.is_cms_gc

\* Adjacent pairs (i, i+1) of accumulated events without a stop-the-world or
\* concurrent-sweep member.
QualifyingPairs(data) ==
    {i \in 1..(Len(data) - 1) :
        ~IsCollectorEvent(data[i]) /\ ~IsCollectorEvent(data[i + 1])}

\* The k-th smallest member of a finite set of numbers.
Kth(S, k) == CHOOSE i \in S : Cardinality({j \in S : j < i}) = k - 1

Elapsed(data, i) ==
    Val(data[i + 1].record_timestamp) - Val(data[i].record_timestamp)

OgDelta(data, i) == Val(data[i + 1].og_used) - Val(data[i].og_used)
GrowingPairs(data) == {i \in QualifyingPairs(data) : OgDelta(data, i) > 0}

OgRatesAsRetained ==
    LET P == GrowingPairs(gc_data) IN
    /\ Len(result.og_rates) = Cardinality(P)
    /\ \A k \in 1..Cardinality(P) :
          result.og_rates[k] =
              Frac(OgDelta(gc_data, Kth(P, k)), 1024 * Elapsed(gc_data, Kth(P, k)))

\* C9 as claimed: og_rates holds an entry (B.og_used - A.og_used) / seconds
\* exactly for the qualifying pairs whose old-gen delta is positive, and no
\* entry is zero or negative, for any accumulated event sequence.
C9_PromotionRatesPositive ==
    Aggregated =>
      /\ OgRatesAsRetained
      /\ \A k \in 1..Len(result.og_rates) : result.og_rates[k][1] > 0

\* C9 amended: og_rates holds an entry exactly for the qualifying pairs whose
\* old-gen delta is positive; an entry is never zero, and it is positive
\* when the later event's timestamp is after the earlier one's (it is
\* negative when the log's clock stepped back between the two).
C9_PromotionRatesOfGrowth ==
    Aggregated =>
      /\ OgRatesAsRetained
      /\ \A k \in 1..Len(result.og_rates) :
            /\ result.og_rates[k][1] # 0
            /\ (Elapsed(gc_data, Kth(GrowingPairs(gc_data), k)) > 0)
                  <=> (result.og_rates[k][1] > 0)

\* A growing pair retained next to a shrinking pair left out.
C9_Witness ==
    /\ Aggregated
    /\ Len(result.og_rates) = 1 /\ result.og_rates[1][1] > 0
    /\ Cardinality(QualifyingPairs(gc_data)) = 2

\* The death rates computed for cohort k (1-based): one per qualifying pair
\* whose later event has a non-sentinel slot k+1, in pair order.
CohortPairs(data, k) ==
    {i \in QualifyingPairs(data) :
        /\ k <= Len(data[i].ages) /\ k + 1 <= Len(data[i + 1].ages)
        /\ data[i + 1].ages[k + 1][2] # -1}

CohortRates(data, k) ==
    LET P == CohortPairs(data, k) IN
    [n \in 1..Cardinality(P) |->
        LET i == Kth(P, n) IN
        FracSub(FracOfInt(1), Frac(data[i + 1].ages[k + 1][2], data[i].ages[k][2]))]

\* C10: the survivor_info entry keyed k holds the min/mean/max of exactly the
\* death rates computed for cohort k; a cohort skipped in some pair gets no
\* value from that pair and the pair's other rates stay under their own keys.
C10_SurvivorStatsPerCohort ==
    Aggregated =>
      \A k \in 1..3 :
        LET rates == CohortRates(gc_data, k) IN
        IF rates = <<>> THEN k \notin DOMAIN result.survivor_info
        ELSE /\ k \in DOMAIN result.survivor_info
             /\ result.survivor_info[k] = <<FracMin(rates), mean(rates), FracMax(rates)>>

\* The pause of an accumulated event in ms: the stop-the-world pause of a
\* CMS-STW or Full GC event, the total pause of a young collection.
EventPause(record) ==
    IF record.is_stw_gc THEN record.stw_time ELSE record.total_gc_time

RECURSIVE SumEventPauses(_)
SumEventPauses(data) ==
    IF data = <<>> THEN 0 ELSE EventPause(data[1]) + SumEventPauses(Tail(data))

SampleSeconds(data) ==
    Val(data[Len(data)].record_timestamp) - Val(data[1].record_timestamp)

\* C11: the GC load percent is 100 times the sum over all accumulated events
\* of the event's pause (stop-the-world pauses of CMS-STW and Full GC events
\* included) divided by the seconds between the first and the last event,
\* and the efficiency score is 100 minus that load.
C11_LoadCountsEveryPause ==
    Aggregated =>
      /\ result.sample_gc_load =
            Frac(100 * SumEventPauses(gc_data), 1000 * SampleSeconds(gc_data))
      /\ result.efficiency = FracSub(FracOfInt(100), result.sample_gc_load)

----------------------------------------------------------------------------
(* Properties of the recommendation stages, checked under SpecRecommend *)

\* _show_recommendations was called, and it got as far as choosing a branch
\* and calling _get_survivor_info.
Recommended == Aggregated /\ result.recommendation # None
recm == Val(result.recommendation)
SurvivorSized == Recommended /\ recm.regime # ""
HasSurvivorStats == result.survivor_info # <<>>

\* The young pause times the decisions look at, and the conditions on them.
ObservedTimes == percentile(result.young_gc_times, ygc_pctile).val
PauseOverGoal == FracLt(FracOfInt(ygc_time_goal_ms), FracMax(ObservedTimes))
StdevOverGoal == StdevGt(ObservedTimes, ygc_stdev_goal)
RateCondition ==
    FracLt(result.ygc_rate, optimized_for_ygcs_rate) /\ (StdevOverGoal \/ PauseOverGoal)

RateBasedSize ==
    FracMul(FracOfInt(recm.curr_ng_size),
            FracDiv(result.ygc_rate, optimized_for_ygcs_rate))
TimeBasedSize ==
    FracMul(FracOfInt(recm.curr_ng_size),
            FracDiv(FracOfInt(ygc_time_goal_ms), FracMax(ObservedTimes)))

\* C12: regime selection picks exactly one of three branches, the rate check
\* first: with target rate > observed rate and (stdev > goal or pause > goal)
\* the pre-survivor new-gen size is current * (observed rate / target rate);
\* otherwise with pause > goal it is current * (pause goal / observed pause);
\* otherwise it is the current size.  When the rate and the time condition
\* both hold, the rate-based size is used.
C12_RateCheckBeforeTimeCheck ==
    SurvivorSized =>
      /\ recm.regime = IF RateCondition THEN "rate"
                       ELSE IF PauseOverGoal THEN "time" ELSE "tuned"
      /\ recm.pre_survivor_ng_size =
            IF RateCondition THEN RateBasedSize
            ELSE IF PauseOverGoal THEN TimeBasedSize
            ELSE FracOfInt(recm.curr_ng_size)

\* The rate and the time condition hold together and the two sizes differ.
C12_Witness ==
    /\ SurvivorSized /\ RateCondition /\ PauseOverGoal
    /\ recm.pre_survivor_ng_size = RateBasedSize
    /\ RateBasedSize # TimeBasedSize

\* The already-tuned branch ran to the JVM arguments without the clamp.
TunedWithoutClamp ==
    /\ SurvivorSized /\ recm.regime = "tuned"
    /\ "jvm_args" \in recm.reported
    /\ "ratio below 1" \notin recm.diagnostics

\* C13 as claimed: in the already-tuned branch without the survivor-ratio
\* clamp, the -Xmn value of the recommendation is the current new-gen size.
C13_TunedKeepsCurrentSize ==
    TunedWithoutClamp => recm.xmn = FracOfInt(recm.curr_ng_size)

\* Twice the largest total of the cohort at list index age - 1, over the
\* events that have it.
TwiceMaxTenured(data, age) ==
    LET sizes == {data[i].ages[PyIndex(age - 1, Len(data[i].ages))][3] :
                     i \in {j \in 1..Len(data) :
                               PyIndex(age - 1, Len(data[j].ages)) # 0}}
    IN 2 * (CHOOSE m \in sizes : \A x \in sizes : x <= m)

\* C13 amended: in the already-tuned branch without the clamp, the -Xmn
\* value is the current new-gen size plus max_tenuring_size, which there is
\* twice the largest tenured size at the selected cohort.
C13_TunedAddsSurvivorSpace ==
    TunedWithoutClamp =>
      recm.xmn = FracOfInt(recm.curr_ng_size
                           + TwiceMaxTenured(gc_data, recm.survivor.selected_age))

C13_Witness ==
    /\ TunedWithoutClamp
    /\ recm.survivor.selected_age > 0
    /\ recm.xmn # FracOfInt(recm.curr_ng_size)

\* The cohorts whose cumulative survival (the running product of
\* 1 - mean death rate, a fraction) is at or below the 10% watermark.
AtWatermark ==
    {k \in 1..Len(result.cuml_pct) :
        FracLe(result.cuml_pct[k], Frac(survivor_problem_pct, 100))}

\* C14: the tenuring age selected is the smallest cohort index whose
\* cumulative survival is at or below the 10% watermark, 0 with the
\* fallback path taken when there is none; and every comparison against
\* the watermark uses one scale, so the last cohort is reported as still
\* above the watermark only when its cumulative survival is above 10%.
C14_WatermarkOnOneScale ==
    (SurvivorSized /\ HasSurvivorStats) =>
      /\ recm.survivor.exc = "none" =>
            /\ recm.survivor.watermark_age =
                  IF AtWatermark = {} THEN 0
                  ELSE CHOOSE k \in AtWatermark : \A j \in AtWatermark : k <= j
            /\ AtWatermark = {} =>
                  recm.survivor.warnings \cap {"threshold too high", "age too short"} # {}
      /\ recm.survivor.error_msg = "too small" =>
            Len(result.cuml_pct) \notin AtWatermark

\* The cohorts with a mean death rate of at most 4%, and the trailing run
\* of them.
NonReaping == {i \in 1..Len(result.death_ages) : FracLe(result.death_ages[i], Frac(4, 100))}
NonReapingTail ==
    {i \in 1..Len(result.death_ages) : \A j \in i..Len(result.death_ages) : j \in NonReaping}

\* C15: when no cohort reaches the watermark and the cohorts with a mean
\* death rate <= 4% are at least 33% of all cohorts, the effective tenuring
\* threshold is the index of the first cohort past the non-reaping tail;
\* when they are fewer, the inconclusive-aging diagnostic is emitted and
\* threshold 0 is used.
C15_FallbackPastNonReapingTail ==
    (SurvivorSized /\ recm.survivor.exc = "none" /\ recm.survivor.watermark_age = 0) =>
      IF 100 * Cardinality(NonReaping) >= 33 * Len(result.death_ages)
      THEN recm.survivor.selected_age
              = Len(result.death_ages) - Cardinality(NonReapingTail)
      ELSE /\ recm.survivor.selected_age = 0
           /\ "age too short" \in recm.survivor.warnings

\* What stage 1 reports of the new generation: the resized new-gen, or in
\* the already-tuned branch the summary of the rate and pause it keeps.
StageOneResults == {"new_gen_size", "ygc summary"}
StageTwoResults == {"tenuring_threshold", "survivor_size", "survivor_ratio"}
HeapResults == {"max_heap_size", "occ_fraction", "g1", "jvm_args"}

\* C16: inconclusive aging (the last cohort still above the watermark) and a
\* computed survivor ratio below 1 only add a warning: _show_recommendations
\* does not stop before the heap-sizing stage and the survivor and tenuring
\* results are reported.
C16_WarningsDoNotHalt ==
    (SurvivorSized /\ HasSurvivorStats
       /\ \/ Len(result.cuml_pct) \notin AtWatermark
          \/ (recm.survivor.exc = "none"
                /\ FracLt(recm.survivor.computed_ratio, FracOfInt(1))))
    => /\ recm.halt # "survivor_error"
       /\ recm.survivor.exc = "none"
       /\ StageTwoResults \subseteq recm.reported

C18_HeapSizingNeedsThreeFullGcs ==
    (SurvivorSized /\ HasSurvivorStats) =>
      /\ Len(result.full_gc_times) < fgc_count_goal =>
            /\ recm.halt = "fgc_count"
            /\ "Error: too few full GCs" \in recm.diagnostics
            /\ recm.reported \cap StageOneResults # {}
            /\ StageTwoResults \subseteq recm.reported
            /\ recm.reported \cap HeapResults = {}
      /\ recm.reported \cap HeapResults # {} =>
            Len(result.full_gc_times) >= fgc_count_goal

\* The events that carry an old-gen usage, the first fall of it between two
\* of them in a row (a full collection ran in between), and the least usage
\* among the events after that collection.
OgSamples == {i \in 1..Len(gc_data) : PyGt(gc_data[i].og_used, Some(0))}
OgFalls ==
    {i \in OgSamples :
        \E j \in OgSamples :
            /\ j > i /\ \A k \in OgSamples : ~(i < k /\ k < j)
            /\ Val(gc_data[i].og_used) > Val(gc_data[j].og_used)}
LeastOgAfterFirstFall ==
    LET first == CHOOSE i \in OgFalls : \A j \in OgFalls : i <= j
        after == {Val(gc_data[i].og_used) : i \in {j \in OgSamples : j > first}}
    IN CHOOSE v \in after : \A x \in after : v <= x

\* C19: when heap sizing runs, the live old-gen estimate is the least
\* old-gen-used value among the events strictly after the first detected
\* full collection, and the recommended max heap is 3.5 times it plus
\* (max_tenuring_size + adjusted new-gen size).
C19_LiveDataAfterFirstFullGc ==
    (SurvivorSized /\ recm.survivor.exc = "none"
       /\ Len(result.full_gc_times) >= fgc_count_goal)
    => /\ ~(recm.halt = "raised" /\ recm.exc = "TypeError")
       /\ OgFalls # {}
       /\ recm.live_data_size_bytes = Some(LeastOgAfterFirstFall)
       /\ recm.recommended_max_heap_size =
             FracAdd(Frac(7 * LeastOgAfterFirstFall, 2),
                     FracAdd(recm.survivor.max_tenuring_size, recm.adj_ng_size))

\* The old-gen size in bytes: jmap's OldSize, else the heap total less the
\* young total of the event the memory configuration is read from.
OldGenBytes ==
    IF jmap_data # None THEN Val(jmap_data).OldSize
    ELSE Val(gc_data[Len(gc_data) - 1].total_heap)
         - Val(gc_data[Len(gc_data) - 1].young_size_total)

\* Bytes per second: the largest young allocation rate (young sizes are in
\* bytes) and the largest 99th-percentile promotion rate (KiB/s * 1024).
MaxYoungAllocRate == _max([i \in 1..Len(result.yg_rates) |-> result.yg_rates[i][1]])
MaxPromotionRate ==
    FracMul(_max(percentile(result.og_rates, pct_number).val), FracOfInt(1024))
MaxSweepTime == _max(result.cms_times)

\* C20: the occupancy fraction is floor(100 * (old_gen_size -
\* max_young_alloc_rate * max_sweep_time - max_99th_percentile_promotion_rate
\* * max_sweep_time) / old_gen_size), the old-gen size in bytes and both
\* rates in bytes per second.
C20_OccupancyInBytesPerSecond ==
    (Recommended /\ "occ_fraction" \in recm.reported) =>
      recm.occ_fraction =
        Floor(FracDiv(FracMul(FracOfInt(100),
                              FracSub(FracSub(FracOfInt(OldGenBytes),
                                              FracMul(MaxYoungAllocRate, MaxSweepTime)),
                                      FracMul(MaxPromotionRate, MaxSweepTime))),
                      FracOfInt(OldGenBytes)))

\* The variance of the observed young pause times: the square of their
\* standard deviation.
ObservedVariance == variance(ObservedTimes)
StdevAtMost(k) == FracLe(ObservedVariance, FracOfInt((k * ygc_stdev_goal) * (k * ygc_stdev_goal)))

\* C21: collector readiness is a function of the young-pause stdev alone:
\* stdev <= goal gives "very consistent", goal < stdev <= 2*goal "somewhat
\* consistent", 2*goal < stdev <= 4*goal "pretty inconsistent", stdev >
\* 4*goal "VERY inconsistent", and readiness is true exactly when stdev <=
\* 2*goal, the first two labels.
C21_ReadinessFromStdev ==
    SurvivorSized =>
      /\ recm.comment = IF StdevAtMost(1) THEN "very consistent"
                        ELSE IF StdevAtMost(2) THEN "somewhat consistent"
                        ELSE IF StdevAtMost(4) THEN "pretty inconsistent"
                        ELSE "VERY inconsistent"
      /\ recm.ready_for_g1 <=> StdevAtMost(2)
      /\ recm.ready_for_g1 <=> recm.comment \in {"very consistent", "somewhat consistent"}

\* A run that is not ready with a stdev between twice and four times the goal.
C21_Witness ==
    /\ SurvivorSized
    /\ ~StdevAtMost(2) /\ StdevAtMost(4)
    /\ recm.comment = "pretty inconsistent" /\ ~recm.ready_for_g1

----------------------------------------------------------------------------
(* Properties of _run_analysis on few or unusual events, checked under
   SpecAnalysis *)

Analysed == analysis # None

\* No rate, survivor, pause statistic or recommendation was computed.
NoStageExecuted ==
    /\ result.yg_rates = <<>> /\ result.og_rates = <<>>
    /\ result.gc_survivor_death_rates = <<>> /\ result.survivor_info = <<>>
    /\ result.young_gc_times = <<>> /\ result.full_gc_times = <<>>
    /\ result.jvm_mem_cfg = None
    /\ result.recommendation = None

\* C22: with fewer than 2 accumulated events _run_analysis halts at once
\* with an insufficient-data report, for 0 events (the error and exit) as
\* for 1 event (the note and return): no rate, survivor, pause-statistic or
\* recommendation stage is executed.
C22_FewerThanTwoEventsHalt ==
    (Analysed /\ Len(gc_data) < 2) =>
      /\ Len(gc_data) = 0 => (result.stage = "exit" /\ result.why = "no data")
      /\ Len(gc_data) = 1 =>
            (result.stage = "insufficient" /\ result.why = "fewer than 2 records")
      /\ NoStageExecuted

\* One event was accumulated and the analysis stopped at the note.
C22_Witness ==
    /\ Analysed /\ Len(gc_data) = 1
    /\ result.stage = "insufficient" /\ NoStageExecuted

\* C24: for every sequence of at least 2 accumulated valid events,
\* aggregation and every recommendation stage reached either produce their
\* result or halt with a diagnostic, never with an unhandled failure; this
\* includes adjacent qualifying events with the same timestamp.
C24_NoUnhandledFailure ==
    (Analysed /\ Len(gc_data) >= 2) =>
      /\ result.stage # "raised"
      /\ result.recommendation # None => recm.halt # "raised"

----------------------------------------------------------------------------
(* Properties of the end of ingestion, checked under Spec *)

Ended == pc = "done"

\* The log was read to its end: the stanza being collected is followed by
\* the end-of-file line, so it is complete in the input.
ReadToEnd == Ended /\ entry # <<>> /\ entry[Len(entry)].kind = "eof"
LastStanza == SubSeq(entry, 1, Len(entry) - 1)
LastEvent == GCRecord(<<Val(date_time), LastStanza>>)

\* C23: when ingestion ends, every stanza that is complete in the input and
\* parses to a valid event is among the accumulated events, the last
\* complete stanza of a finite log included; and the end-of-file line is
\* never parsed as part of a stanza.
C23_LastCompleteStanzaKept ==
    /\ (ReadToEnd /\ LastStanza # <<>>
          /\ LastEvent.exc = "none" /\ LastEvent.valid_record)
       => /\ gc_data # <<>>
          /\ gc_data[Len(gc_data)].raw_gc_record = <<Val(date_time), LastStanza>>
    /\ \A i \in 1..Len(gc_data) :
          \A j \in 1..Len(gc_data[i].raw_gc_record[2]) :
              gc_data[i].raw_gc_record[2][j].kind # "eof"

----------------------------------------------------------------------------
(* Properties of reduce_seconds, checked under SpecReduce *)

Reduced == retval # None

\* The days, hours, minutes and seconds of secs, and their suffixes.
UnitsOf(n) ==
    <<n \div 86400, (n % 86400) \div 3600, (n % 3600) \div 60, n % 60>>
Suffix == <<"d", "h", "m", "s">>
Rendered(n, i) == ToString(UnitsOf(n)[i]) \o Suffix[i]

\* The most significant non-zero unit, followed by the next unit of the
\* scale when that one is non-zero too.
TwoAdjacentUnits(n) ==
    LET nonzero == {i \in 1..4 : UnitsOf(n)[i] # 0}
        top == CHOOSE i \in nonzero : \A j \in nonzero : i <= j
    IN IF top < 4 /\ top + 1 \in nonzero
       THEN Rendered(n, top) \o Rendered(n, top + 1)
       ELSE Rendered(n, top)

\* C25: reduce_seconds(n) for every non-negative whole n renders at most
\* the two most significant non-zero units of n's days/hours/minutes/seconds
\* in descending order with the suffixes d, h, m, s (1 -> "1s", 2064 ->
\* "34m24s", 64738 -> "17h58m", 129476 -> "1d11h"); the rendered units are
\* adjacent in the scale or a single unit, and the result is never empty.
C25_TwoAdjacentUnitsNeverEmpty ==
    Reduced =>
      /\ Val(retval) # ""
      /\ secs > 0 => Val(retval) = TwoAdjacentUnits(secs)
      /\ secs = 1 => Val(retval) = "1s"
      /\ secs = 2064 => Val(retval) = "34m24s"
      /\ secs = 64738 => Val(retval) = "17h58m"
      /\ secs = 129476 => Val(retval) = "1d11h"

----------------------------------------------------------------------------
(* Properties of median, checked under SpecMedian *)

MedianReturned == median_result # None

\* The values of the caller's list that have at most half of the others
\* below them and at most half above them: the middle of the sorted values.
\* An odd-length list has one such value, an even-length list one or two.
NumBelow(v) == Cardinality({i \in 1..Len(median_values) : median_values[i] < v})
NumAbove(v) == Cardinality({i \in 1..Len(median_values) : median_values[i] > v})
LowerMiddle ==
    CHOOSE v \in {median_values[i] : i \in 1..Len(median_values)} :
        /\ 2 * NumBelow(v) < Len(median_values)
        /\ 2 * NumAbove(v) <= Len(median_values)
UpperMiddle ==
    CHOOSE v \in {median_values[i] : i \in 1..Len(median_values)} :
        /\ 2 * NumBelow(v) <= Len(median_values)
        /\ 2 * NumAbove(v) < Len(median_values)

\* The same values in another order.
Reordered(f) == [i \in 1..Len(median_values) |-> median_values[f[i]]]

\* C26: median(values) is 0 for an empty list, the middle element of the
\* sorted values for an odd length and the average of the two middle sorted
\* elements for an even length, the same for every order of the same
\* values; and the call leaves the caller's list unchanged.
C26_MedianOfSortedValues ==
    /\ [](MedianReturned =>
            /\ median_values = <<>> => Val(median_result) = FracOfInt(0)
            /\ (median_values # <<>> /\ Len(median_values) % 2 = 1) =>
                  /\ LowerMiddle = UpperMiddle
                  /\ Val(median_result) = FracOfInt(LowerMiddle)
            /\ (median_values # <<>> /\ Len(median_values) % 2 = 0) =>
                  Val(median_result) = Frac(LowerMiddle + UpperMiddle, 2)
            /\ \A f \in Permutations(1..Len(median_values)) :
                  median(Reordered(f)) = Val(median_result))
    /\ [][median_values' = median_values]_vars

\* The median of an even-length list given out of order, between two
\* different middle values.
C26_Witness ==
    /\ MedianReturned
    /\ Len(median_values) = 4
    /\ \E i \in 1..3 : median_values[i] > median_values[i + 1]
    /\ LowerMiddle < UpperMiddle
    /\ Val(median_result) = Frac(LowerMiddle + UpperMiddle, 2)

----------------------------------------------------------------------------
(* Properties of the sizes of a parsed record, checked under SpecParse.   *)

\* The stanza that was parsed has a line of the given kind.
StanzaHas(kind) == \E i \in 1..Len(entry) : entry[i].kind = kind

\* The record is one the aggregation loops take as an end of a pair.
QualifyingRecord ==
    /\ Parsed /\ rec.exc = "none"
    /\ rec.valid_record /\ ~rec.is_stw_gc /\ ~rec.is_cms_gc

ReallocationFieldsSet ==
    /\ rec.young_size_before_gc # None /\ rec.young_size_after_gc # None
    /\ rec.young_size_total # None
    /\ rec.total_heap_before_gc # None /\ rec.total_heap_after_gc # None
    /\ rec.total_heap # None
    /\ rec.og_used # None
    /\ Val(rec.og_used) = Val(rec.total_heap_after_gc) - Val(rec.young_size_after_gc)

\* C28: a valid record that is neither stop-the-world nor of the
\* concurrent collector has its young, total-heap and og_used sizes set,
\* with og_used = total_heap_after_gc - young_size_after_gc; a stanza with a
\* threshold line and no reallocation line gives no valid record.
C28_QualifyingRecordHasSizes ==
    /\ QualifyingRecord => ReallocationFieldsSet
    /\ (Parsed /\ rec.exc = "none" /\ StanzaHas("threshold") /\ ~StanzaHas("realloc"))
          => ~rec.valid_record

----------------------------------------------------------------------------
(* Properties of the JVM sizes taken from the log, checked under          *)
(* SpecAnalysis.                                                          *)

\* A young collection with its sizes: neither stop-the-world nor of the
\* concurrent collector, and its reallocation line was read.
YoungCollection(record) ==
    /\ ~record.is_stw_gc /\ ~record.is_cms_gc
    /\ record.total_heap # None /\ record.young_size_total # None

NoRecordExit ==
    Analysed /\ result.stage = "exit" /\ result.why = "no non CMS/FGC record"

\* C29: _run_analysis leaves with "could not find a non CMS/FGC GC
\* record" only when no accumulated event is a young collection, whatever
\* the last and next-to-last events are.
C29_ExitOnlyWithoutYoungCollection ==
    NoRecordExit => \A i \in 1..Len(gc_data) : ~YoungCollection(gc_data[i])

----------------------------------------------------------------------------
(* Properties of the recommended tenuring threshold, checked under        *)
(* SpecRecommend.                                                         *)

\* The maximum the tool states for MaxTenuringThreshold ("max: 15")
StatedMaxThreshold == 15

\* The threshold was recommended: the TenuringThreshold line was reported.
ThresholdRecommended ==
    SurvivorSized /\ recm.survivor.exc = "none" /\ "tenuring_threshold" \in recm.reported

\* "{0:0.0f}".format(max_tenuring_age): the nearest whole number, a half
\* going to the even one.
Rendered0f(x) ==
    LET low == Floor(x)
        twice == FracSub(FracMul(x, FracOfInt(2)), FracOfInt(2 * low))
    IN IF FracLt(twice, FracOfInt(1)) THEN low
       ELSE IF FracLt(FracOfInt(1), twice) THEN low + 1
       ELSE IF low % 2 = 0 THEN low ELSE low + 1

RecommendedThreshold == Rendered0f(recm.survivor.max_tenuring_age)

\* C30: the recommended tenuring threshold, after the scaling by the
\* inverse of the new-gen size change, is never above 15.
C30_ThresholdAtMostFifteen ==
    ThresholdRecommended => RecommendedThreshold <= StatedMaxThreshold

====
